---- MODULE Spec2Model ----
(***************************************************************************)
(* Scan persistence layer of the HTTP observatory: the PostgreSQLAdapter   *)
(* and the Neo4jAdapter of src/src/database/adapters/postgresql.js, the    *)
(* adapter factory, and the callers that issue their operations.           *)
(*                                                                         *)
(* Every awaited store statement is one atomic step; an operation of       *)
(* several statements (ensureSite, insertTestResults) is several steps     *)
(* that other callers' statements can interleave with.                     *)
(***************************************************************************)
EXTENDS Integers, Sequences, FiniteSets, TLC

\* ---------------------------------------------------------------- bounds
NumProcs == 2
MaxScans == 1
MaxTests == 3
MaxTime == 2
HistoryScans == 3
HistoryTime == 4
CacheScans == 2
GradeScans == 2
FrameScans == 2
SiteHistoryScans == 3
SiteHistoryTime == 3
MaxPoolCalls == 2
MaxCloseCalls == 2

\* ------------------------------------------------------------- constants
ALGORITHM_VERSION == 4

\* A nullable value is a tagged tuple, so that null, an absent graph
\* property (JavaScript undefined) and a value are always comparable.
NULL == <<"null">>
UNDEFINED == <<"undefined">>
Val(v) == <<"val", v>>
IsNull(v) == v[1] # "val"
Unwrap(v) == v[2]
\* Two nullable values agree (null and an absent property are both "null").
NullEq(a, b) == IF IsNull(a) \/ IsNull(b) THEN IsNull(a) /\ IsNull(b) ELSE a = b
Err(kind) == <<"error", kind>>
IsErr(v) == v[1] = "error"

ScanState ==
    [ABORTED |-> "ABORTED", FAILED |-> "FAILED", FINISHED |-> "FINISHED",
     PENDING |-> "PENDING", STARTING |-> "STARTING", RUNNING |-> "RUNNING"]

Terminal == {ScanState.FINISHED, ScanState.FAILED, ScanState.ABORTED}

\* The states callers pass to updateScanState: ABORTED and FAILED on a timeout
\* or cancellation, and FINISHED by the caller that stores test results and
\* then finalizes the scan itself (LOCAL_TEST_GUIDE.md). The adapters write
\* whatever state they are given.
ForcedStates == {ScanState.ABORTED, ScanState.FAILED, ScanState.FINISHED}
ErrorArgs == {NULL, Val("timeout")}

\* The windows, in seconds, callers pass to selectScanRecentScan and
\* selectScanLatestScanByHost.
Windows == {0, 60, 120}

Procs == 1..NumProcs

\* Configuration values of database.type, and the adapter the factory builds.
DbTypes == {"postgresql", "neo4j"}
createDatabaseAdapter(type) == IF type = "neo4j" THEN "neo4j" ELSE "postgresql"

\* Domain names are character sequences, so that the graph adapter's
\* replace(/[^a-zA-Z0-9]/g, "_") is computed, not assumed.
AlNum == {"a", "b", "c"}
Domains == {<<"a", ".", "c">>, <<"a", "_", "c">>}
Sanitize(k) == [i \in DOMAIN k |-> IF k[i] \in AlNum THEN k[i] ELSE "_"]

\* A timestamp as the caller sees it (a Date), from a millisecond counter.
Date(ms) == [epochMillis |-> ms]

\* ------------------------------------------------------------ scan results
\* The completed scan results the external pipeline hands to
\* insertTestResults: scan carries score, grade, counts and error; tests is
\* the outcome map in insertion order (Object.entries order).
TestCsp ==
    [name |-> "csp", expectation |-> "csp-implemented", result |-> "csp-implemented",
     pass |-> TRUE, scoreModifier |-> 5, scoreDescription |-> "ok", data |-> "d1"]
TestHsts ==
    [name |-> "hsts", expectation |-> "hsts-implemented", result |-> "hsts-implemented",
     pass |-> TRUE, scoreModifier |-> 0, scoreDescription |-> "ok", data |-> "d2"]
TestCspFail ==
    [name |-> "csp", expectation |-> "csp-implemented", result |-> "csp-not-implemented",
     pass |-> FALSE, scoreModifier |-> -25, scoreDescription |-> "bad", data |-> "d3"]

ResultFinished ==
    [scan |-> [score |-> Val(105), grade |-> Val("A+"), testsPassed |-> 2,
               testsFailed |-> 0, testsQuantity |-> 2, error |-> NULL,
               algorithmVersion |-> ALGORITHM_VERSION],
     tests |-> <<TestCsp, TestHsts>>]
ResultFailed ==
    [scan |-> [score |-> NULL, grade |-> NULL, testsPassed |-> 0,
               testsFailed |-> 1, testsQuantity |-> 1, error |-> Val("site down"),
               algorithmVersion |-> ALGORITHM_VERSION],
     tests |-> <<TestCspFail>>]
\* error is a nullable field of its own: a result without a score need not
\* carry a message.
ResultFailedNoError ==
    [scan |-> [score |-> NULL, grade |-> NULL, testsPassed |-> 0,
               testsFailed |-> 1, testsQuantity |-> 1, error |-> NULL,
               algorithmVersion |-> ALGORITHM_VERSION],
     tests |-> <<TestCspFail>>]
ScanResults == {ResultFinished, ResultFailed, ResultFailedNoError}

\* Results whose outcome map is empty: with a score, and without one.
ResultFinishedEmpty ==
    [scan |-> [score |-> Val(100), grade |-> Val("A+"), testsPassed |-> 0,
               testsFailed |-> 0, testsQuantity |-> 0, error |-> NULL,
               algorithmVersion |-> ALGORITHM_VERSION],
     tests |-> <<>>]
ResultFailedEmpty ==
    [scan |-> [score |-> NULL, grade |-> NULL, testsPassed |-> 0,
               testsFailed |-> 0, testsQuantity |-> 0, error |-> Val("site down"),
               algorithmVersion |-> ALGORITHM_VERSION],
     tests |-> <<>>]
EmptyResults == {ResultFinishedEmpty, ResultFailedEmpty}

\* JSON.stringify of a test with expectation, pass, result, scoreModifier and
\* scoreDescription deleted: what is left of it.
Output(test) == [data |-> test.data]

VARIABLES
    dbType,     \* CONFIG.database.type
    schema,     \* the uniqueness constraints the engine enforces
    sites,      \* sequence of Site rows / nodes
    scans,      \* sequence of Scan rows / nodes; a scan's id is its position
    tests,      \* sequence of TestResult rows / nodes
    views,      \* the rows of the materialized view grade_distribution
    now,        \* the clock: NOW() and Date.now()
    pc,         \* per caller: the operation in flight, or "idle"
    args,       \* per caller: arguments and locals of the operation in flight
    ret,        \* the last call that returned, and what it returned
    adapter,    \* the adapter object: this.pool, this.driver, this.session
    connections, \* the pools, drivers and sessions created, and those ended
    calls,      \* the createPool and close calls made on the adapter
    fastify     \* the server: the plugin's position, fastify.db, the onClose hook, the log

vars == <<dbType, schema, sites, scans, tests, views, now, pc, args, ret,
          adapter, connections, calls, fastify>>
store == <<schema, sites, scans, tests, views>>
lifecycle == <<adapter, connections, calls, fastify>>

backend == createDatabaseAdapter(dbType)
IsPg == backend = "postgresql"
IsNeo == backend = "neo4j"


\* ----------------------------------------------------------------- schema
SiteDomainUnique == "Site.domain IS UNIQUE"

\* The statements of initializeSchema that change what an operation does: the
\* Site.domain constraint. (The Scan.id and TestResult.id constraints are on
\* generated identifiers and the index statements change no result; they
\* are left out.)
NeoConstraints == {SiteDomainUnique}

\* The relational schema the migrations create: sites.domain is UNIQUE.
PgSchema == {SiteDomainUnique}

\* Whether the stored data lets the engine create constraint c.
Satisfied(c) ==
    IF c = SiteDomainUnique
    THEN \A i, j \in DOMAIN sites : sites[i].domain = sites[j].domain => i = j
    ELSE TRUE

\* initializeSchema: every statement runs in its own try/catch; a statement
\* that throws (the data violates it, or the backend fails) is logged and
\* skipped, and the loop goes on.
initializeSchema(failed) ==
    schema \cup {c \in NeoConstraints \ failed : Satisfied(c)}

\* ------------------------------------------------------------------ sites
SiteCreationTime(s) == IF IsPg THEN s.creation_time.epochMillis ELSE s.creationTime

\* SELECT id FROM sites WHERE domain = k ORDER BY creation_time DESC LIMIT 1:
\* the positions of the rows the engine may return (ties are the engine's choice).
LatestSites(k) ==
    {i \in DOMAIN sites :
        /\ sites[i].domain = k
        /\ \A j \in DOMAIN sites :
              sites[j].domain = k => SiteCreationTime(sites[j]) <= SiteCreationTime(sites[i])}

SiteIds == {sites[i].id : i \in DOMAIN sites}

\* The engine rejects the creation of a second Site of a domain when it
\* enforces the uniqueness constraint.
DomainConflict(k) ==
    /\ SiteDomainUnique \in schema
    /\ \E i \in DOMAIN sites : sites[i].domain = k

PgSiteRow(k) ==
    [id |-> Len(sites) + 1, domain |-> k, creation_time |-> Date(now)]

NeoSiteNode(siteId, k, creationTime) ==
    [id |-> siteId, domain |-> k, creationTime |-> creationTime]

\* siteKey.replace(/[^a-zA-Z0-9]/g, "_") + "_" + Date.now()
NeoSiteId(k) == [key |-> Sanitize(k), ts |-> now]

\* ------------------------------------------------------------------ scans
ScanIds == DOMAIN scans

\* A site identifier no Site has: SERIAL ids start at 1, and a graph id ends
\* with a timestamp.
AbsentSiteId == IF IsPg THEN 0 ELSE [key |-> <<>>, ts |-> 0]

PgScanRow(siteId) ==
    [id |-> Len(scans) + 1, site_id |-> siteId, state |-> ScanState.RUNNING,
     start_time |-> Date(now), end_time |-> NULL,
     tests_failed |-> 0, tests_passed |-> 0, tests_quantity |-> 0,
     grade |-> NULL, score |-> NULL, error |-> NULL,
     algorithm_version |-> ALGORITHM_VERSION]

\* A Scan node as insertScan creates it: endTime, grade, score and error are
\* properties the node does not have.
NeoScanNode(id, siteId) ==
    [id |-> id, siteId |-> siteId, state |-> ScanState.RUNNING,
     startTime |-> now, endTime |-> UNDEFINED,
     testsFailed |-> 0, testsPassed |-> 0, testsQuantity |-> 0,
     grade |-> UNDEFINED, score |-> UNDEFINED, error |-> UNDEFINED,
     algorithmVersion |-> ALGORITHM_VERSION]

\* SET n.p = null removes property p from the node.
NeoProp(v) == IF IsNull(v) THEN UNDEFINED ELSE v

\* scan.endTime ? new Date(scan.endTime) : null
NeoEndTime(endTime) ==
    IF IsNull(endTime) \/ Unwrap(endTime) = 0 THEN NULL ELSE Val(Date(Unwrap(endTime)))

\* _mapScanRow, and the same mapping written out in selectScan and
\* insertTestResults: a Scan node in the caller-facing shape.
mapScanRow(scan) ==
    [id |-> scan.id, site_id |-> scan.siteId, state |-> scan.state,
     start_time |-> Date(scan.startTime), end_time |-> NeoEndTime(scan.endTime),
     tests_failed |-> scan.testsFailed, tests_passed |-> scan.testsPassed,
     tests_quantity |-> scan.testsQuantity,
     grade |-> scan.grade, score |-> scan.score, error |-> scan.error,
     algorithm_version |-> scan.algorithmVersion]

\* The record insertScan returns on the graph backend: nulls written out.
NeoInsertScanReturn(scan) ==
    [id |-> scan.id, site_id |-> scan.siteId, state |-> scan.state,
     start_time |-> Date(scan.startTime), end_time |-> NULL,
     tests_failed |-> scan.testsFailed, tests_passed |-> scan.testsPassed,
     tests_quantity |-> scan.testsQuantity,
     grade |-> NULL, score |-> NULL, error |-> NULL,
     algorithm_version |-> scan.algorithmVersion]

\* Mutant of ResultState: a result that counts no test is not terminal.
ResultStateNeedsTests(scan) ==
    IF scan.testsQuantity = 0 THEN ScanState.RUNNING
    ELSE IF ~IsNull(scan.score) THEN ScanState.FINISHED ELSE ScanState.FAILED

\* The state insertTestResults moves the scan to.
ResultState(scan) ==
    IF ~IsNull(scan.score) THEN ScanState.FINISHED ELSE ScanState.FAILED

\* Mutant of PgUpdateScan: the grade column left out of the UPDATE.
PgUpdateScanNoGrade(row, scan) ==
    [row EXCEPT !.end_time = Val(Date(now)),
                !.tests_failed = scan.testsFailed,
                !.tests_passed = scan.testsPassed,
                !.score = scan.score,
                !.state = IF ~IsNull(scan.score) THEN ScanState.FINISHED
                          ELSE ScanState.FAILED,
                !.algorithm_version = scan.algorithmVersion,
                !.tests_quantity = scan.testsQuantity,
                !.error = scan.error]

\* UPDATE scans SET (end_time, ..., error) = (NOW(), ...) WHERE id = scanId
PgUpdateScan(row, scan) ==
    [row EXCEPT !.end_time = Val(Date(now)),
                !.tests_failed = scan.testsFailed,
                !.tests_passed = scan.testsPassed,
                !.grade = scan.grade,
                !.score = scan.score,
                !.state = ResultState(scan),
                !.algorithm_version = scan.algorithmVersion,
                !.tests_quantity = scan.testsQuantity,
                !.error = scan.error]

\* MATCH (scan:Scan {id}) SET scan.endTime = $endTime, ..., scan.error = $error
NeoSetScan(node, scan, timestamp) ==
    [node EXCEPT !.endTime = Val(timestamp),
                 !.testsFailed = scan.testsFailed,
                 !.testsPassed = scan.testsPassed,
                 !.grade = NeoProp(scan.grade),
                 !.score = NeoProp(scan.score),
                 !.state = ResultState(scan),
                 !.testsQuantity = scan.testsQuantity,
                 !.error = NeoProp(scan.error)]

\* updateScanState on the relational backend: with an error message
\* (state, end_time, error) = (state, NOW(), error), without one state only.
PgUpdateScanState(row, state, error) ==
    IF ~IsNull(error)
    THEN [row EXCEPT !.state = state, !.end_time = Val(Date(now)), !.error = error]
    ELSE [row EXCEPT !.state = state]

\* updateScanState on the graph backend: SET scan += {state, endTime: error ?
\* Date.now() : null [, error]}; the null endTime removes the property.
NeoUpdateScanState(node, state, error) ==
    IF ~IsNull(error)
    THEN [node EXCEPT !.state = state, !.endTime = Val(now), !.error = error]
    ELSE [node EXCEPT !.state = state, !.endTime = UNDEFINED]

\* ------------------------------------------------------------------ tests
\* The decimal text of a number (Number.prototype.toString) and the integer a
\* decimal text denotes.
DigitChar(d) == <<"0", "1", "2", "3", "4", "5", "6", "7", "8", "9">>[d + 1]
DigitValue(c) == CHOOSE d \in 0..9 : DigitChar(d) = c

RECURSIVE NatToString(_)
NatToString(n) ==
    IF n < 10 THEN <<DigitChar(n)>>
    ELSE Append(NatToString(n \div 10), DigitChar(n % 10))

NumberToString(n) == IF n < 0 THEN <<"-">> \o NatToString(-n) ELSE NatToString(n)

RECURSIVE ParseNat(_)
ParseNat(s) ==
    IF s = <<>> THEN 0
    ELSE 10 * ParseNat(SubSeq(s, 1, Len(s) - 1)) + DigitValue(s[Len(s)])

\* format("... VALUES %L", testValues): every value becomes an SQL literal.
\* A string is quoted, true and false become 't' and 'f', a number its
\* decimal text in quotes.
PgStringLiteral(str) == <<"'", str, "'">>
PgBooleanLiteral(bool) == <<"'", IF bool THEN "t" ELSE "f", "'">>
PgNumberLiteral(n) == <<"'", NumberToString(n), "'">>

\* The value a column holds for a literal, as a SELECT returns it: a VARCHAR
\* column the quoted text.
PgVarchar(literal) == literal[2]

\* Mutant of PgBoolean: only the text 'true' reads as true.
PgBooleanOnlyTrue(literal) == literal[2] = "true"

\* A BOOLEAN column: 't' is true.
PgBoolean(literal) == literal[2] \in {"t", "true"}

\* An integer column: the number the text denotes.
PgInteger(literal) ==
    IF literal[2][1] = "-" THEN -ParseNat(Tail(literal[2])) ELSE ParseNat(literal[2])

PgTestRow(id, siteId, scanId, test) ==
    [id |-> id, site_id |-> siteId, scan_id |-> scanId,
     name |-> PgVarchar(PgStringLiteral(test.name)),
     expectation |-> PgVarchar(PgStringLiteral(test.expectation)),
     result |-> PgVarchar(PgStringLiteral(test.result)),
     pass |-> PgBoolean(PgBooleanLiteral(test.pass)),
     output |-> Output(test),
     score_modifier |-> PgInteger(PgNumberLiteral(test.scoreModifier))]

\* The driver sends a JavaScript number as a Float, and returns a Float
\* property as a JavaScript number.
NeoFloat(n) == [float |-> n]
NeoNumber(property) == property.float

NeoTestNode(id, scanId, test) ==
    [id |-> id, scanId |-> scanId, name |-> test.name,
     expectation |-> test.expectation, result |-> test.result, pass |-> test.pass,
     scoreModifier |-> NeoFloat(test.scoreModifier), output |-> Output(test)]

\* selectTestResults on the graph backend maps each node to the caller's shape.
mapTestRow(test) ==
    [id |-> test.id, scan_id |-> test.scanId, name |-> test.name,
     expectation |-> test.expectation, result |-> test.result, pass |-> test.pass,
     output |-> test.output, score_modifier |-> NeoNumber(test.scoreModifier)]

\* ---------------------------------------------------------------- callers
NoArgs ==
    [key |-> <<>>, siteId |-> 0, creationTime |-> 0, scanId |-> 0,
     result |-> [scan |-> <<>>, tests |-> <<>>], i |-> 0, timestamp |-> 0,
     observed |-> UNDEFINED]
NoRet ==
    [caller |-> 0, op |-> "none", key |-> <<>>, scanId |-> 0, val |-> UNDEFINED,
     prior |-> UNDEFINED, observed |-> UNDEFINED, siteId |-> NULL, window |-> 0]

\* For an ensureSite call: what the call before it returned, when that was
\* ensureSite for the same key.
Prior(op, key) ==
    IF op = "ensureSite" /\ ret.op = op /\ ret.key = key THEN ret.val ELSE UNDEFINED

\* Caller p's call returns (or throws) val. A reader's selectTestResults is
\* recorded with the scan the reader had looked up before.
Return(p, op, key, scanId, val) ==
    ret' = [caller |-> p, op |-> op, key |-> key, scanId |-> scanId, val |-> val,
            prior |-> Prior(op, key), observed |-> args[p].observed,
            siteId |-> NULL, window |-> 0]

\* Caller p's insertScan(siteId) returns (or throws) val.
ReturnInsertScan(p, siteId, scanId, val) ==
    ret' = [caller |-> p, op |-> "insertScan", key |-> <<>>, scanId |-> scanId,
            val |-> val, prior |-> UNDEFINED, observed |-> args[p].observed,
            siteId |-> Val(siteId), window |-> 0]

Done(p) ==
    /\ pc' = [pc EXCEPT ![p] = "idle"]
    /\ args' = [args EXCEPT ![p] = NoArgs]

\* ------------------------------------------------------------ connections
\* The adapter object after construction: no pool, driver or session.
Unpooled == [pool |-> NULL, driver |-> NULL, session |-> NULL]

Range(q) == {q[i] : i \in DOMAIN q}

\* The createPool and close calls made so far.
PoolCalls == Cardinality({i \in DOMAIN calls : calls[i].op = "createPool"})
CloseCalls == Cardinality({i \in DOMAIN calls : calls[i].op = "close"})

\* What call number n of createPool creates: new Pool(poolOptions), or
\* neo4j.driver(...) and driver.session(...).
Created(n) == IF IsPg THEN {<<"pool", n>>} ELSE {<<"driver", n>>, <<"session", n>>}

\* Mutant of createPool: a pool that exists is kept.
createPoolGuarded(n) ==
    IF IsPg
    THEN IF IsNull(adapter.pool) THEN [adapter EXCEPT !.pool = Val(<<"pool", n>>)]
         ELSE adapter
    ELSE IF IsNull(adapter.driver)
         THEN [adapter EXCEPT !.driver = Val(<<"driver", n>>),
                              !.session = Val(<<"session", n>>)]
         ELSE adapter

\* createPool: this.pool, or this.driver and this.session, are assigned the
\* new resources; what they held before is dropped, not ended.
createPool(n) ==
    IF IsPg THEN [adapter EXCEPT !.pool = Val(<<"pool", n>>)]
    ELSE [adapter EXCEPT !.driver = Val(<<"driver", n>>),
                         !.session = Val(<<"session", n>>)]

\* The resources still open.
Open == connections.opened \ Range(connections.ended)

\* A createPool call: it throws before anything is created (ok = FALSE), or
\* creates the resources and assigns them.
CreatePoolCall(ok) ==
    /\ calls' = Append(calls, [op |-> "createPool", error |-> ~ok])
    /\ IF ok
       THEN /\ adapter' = createPool(PoolCalls + 1)
            /\ connections' = [connections EXCEPT
                                  !.opened = @ \cup Created(PoolCalls + 1)]
       ELSE UNCHANGED <<adapter, connections>>

\* Mutant of Held: the driver is closed before the session.
HeldDriverFirst ==
    IF IsPg
    THEN IF IsNull(adapter.pool) THEN <<>> ELSE <<Unwrap(adapter.pool)>>
    ELSE (IF IsNull(adapter.driver) THEN <<>> ELSE <<Unwrap(adapter.driver)>>)
         \o (IF IsNull(adapter.session) THEN <<>> ELSE <<Unwrap(adapter.session)>>)

\* What close() ends, in the order it does: if (this.pool) pool.end(), or
\* if (this.session) session.close() and then if (this.driver) driver.close().
Held ==
    IF IsPg
    THEN IF IsNull(adapter.pool) THEN <<>> ELSE <<Unwrap(adapter.pool)>>
    ELSE (IF IsNull(adapter.session) THEN <<>> ELSE <<Unwrap(adapter.session)>>)
         \o (IF IsNull(adapter.driver) THEN <<>> ELSE <<Unwrap(adapter.driver)>>)

\* A close() call: the awaited end of resource number failAt rejects and the
\* call throws there (failAt = 0: none does). The fields of the adapter keep
\* their values.
CloseCall(failAt) ==
    /\ failAt \in 0..Len(Held)
    /\ calls' = Append(calls, [op |-> "close", error |-> failAt # 0])
    /\ connections' = [connections EXCEPT
                          !.ended = @ \o (IF failAt = 0 THEN Held
                                          ELSE SubSeq(Held, 1, failAt - 1))]
    /\ UNCHANGED adapter

\* The owner of the adapter calls createPool.
CreatePool(ok) ==
    /\ PoolCalls < MaxPoolCalls
    /\ CreatePoolCall(ok)
    /\ UNCHANGED <<dbType, store, now, pc, args, ret, fastify>>

\* The owner of the adapter calls close.
Close(failAt) ==
    /\ CloseCalls < MaxCloseCalls
    /\ CloseCall(failAt)
    /\ UNCHANGED <<dbType, store, now, pc, args, ret, fastify>>

\* ----------------------------------------------------------------- plugin
\* The server before the database plugin is registered.
Unregistered == [stage |-> "registering", db |-> NULL, onClose |-> FALSE, log |-> <<>>]

Log(level, message) == [level |-> level, message |-> message]

\* db = await createDatabaseAdapter(CONFIG): an error is logged and rethrown,
\* which ends the registration.
PluginCreateAdapter(ok) ==
    /\ fastify.stage = "registering"
    /\ fastify' = IF ok THEN [fastify EXCEPT !.stage = "created"]
                  ELSE [fastify EXCEPT
                           !.stage = "failed",
                           !.log = Append(@, Log("error", "Failed to create database adapter"))]
    /\ UNCHANGED <<dbType, store, now, pc, args, ret, adapter, connections, calls>>

\* Mutant of PluginCreatePool: the adapter is made available before the pool
\* is created.
PluginCreatePoolDecoratesFirst(ok) ==
    /\ fastify.stage = "created"
    /\ CreatePoolCall(ok)
    /\ fastify' = IF ok
                  THEN [fastify EXCEPT
                           !.stage = "registered",
                           !.log = Append(@, Log("info", "Database adapter initialized")),
                           !.onClose = TRUE,
                           !.db = Val(backend)]
                  ELSE [fastify EXCEPT
                           !.stage = "failed",
                           !.db = Val(backend),
                           !.log = Append(@, Log("error", "Failed to initialize database pool"))]
    /\ UNCHANGED <<dbType, store, now, pc, args, ret>>

\* db.createPool(): an error is logged and rethrown; otherwise the plugin
\* registers the onClose hook and decorates the server with the adapter.
PluginCreatePool(ok) ==
    /\ fastify.stage = "created"
    /\ CreatePoolCall(ok)
    /\ fastify' = IF ok
                  THEN [fastify EXCEPT
                           !.stage = "registered",
                           !.log = Append(@, Log("info", "Database adapter initialized")),
                           !.onClose = TRUE,
                           !.db = Val(backend)]
                  ELSE [fastify EXCEPT
                           !.stage = "failed",
                           !.log = Append(@, Log("error", "Failed to initialize database pool"))]
    /\ UNCHANGED <<dbType, store, now, pc, args, ret>>

\* The server closes: the onClose hook awaits db.close(); its error is logged
\* and goes no further.
PluginOnClose(failAt) ==
    /\ fastify.stage = "registered"
    /\ fastify.onClose
    /\ CloseCall(failAt)
    /\ fastify' = [fastify EXCEPT
                      !.stage = "closed",
                      !.log = Append(@, IF failAt = 0
                                        THEN Log("info", "Database connection closed")
                                        ELSE Log("error", "Error closing database connection"))]
    /\ UNCHANGED <<dbType, store, now, pc, args, ret>>

\* The state the operations run in: the plugin registered the adapter after
\* one createPool call.
Serving ==
    /\ adapter = IF IsPg THEN [Unpooled EXCEPT !.pool = Val(<<"pool", 1>>)]
                 ELSE [Unpooled EXCEPT !.driver = Val(<<"driver", 1>>),
                                       !.session = Val(<<"session", 1>>)]
    /\ connections = [opened |-> Created(1), ended |-> <<>>]
    /\ calls = <<[op |-> "createPool", error |-> FALSE]>>
    /\ fastify = [stage |-> "registered", db |-> Val(backend), onClose |-> TRUE,
                  log |-> <<Log("info", "Database adapter initialized")>>]

Init ==
    /\ dbType \in DbTypes
    /\ Serving
    /\ schema = IF IsPg THEN PgSchema ELSE {}
    /\ sites = <<>>
    /\ scans = <<>>
    /\ tests = <<>>
    /\ views = {}
    /\ now = 1
    /\ pc = [p \in Procs |-> "idle"]
    /\ args = [p \in Procs |-> NoArgs]
    /\ ret = NoRet

\* The clock advances.
Tick ==
    /\ now < MaxTime
    /\ now' = now + 1
    /\ UNCHANGED <<dbType, lifecycle, store, pc, args, ret>>

\* migrate(): on the graph backend initializeSchema, where the statements in
\* `failed` throw and are swallowed; on the relational backend the migration
\* scripts, which leave an initialised schema as it is.
Migrate ==
    /\ \E failed \in SUBSET NeoConstraints :
          schema' = IF IsNeo THEN initializeSchema(failed) ELSE schema
    /\ UNCHANGED <<dbType, lifecycle, views, sites, scans, tests, now, pc, args, ret>>

\* A caller invokes migrate(): the call is in flight until its statements ran.
MigrateStart(p) ==
    /\ pc[p] = "idle"
    /\ pc' = [pc EXCEPT ![p] = "migrate"]
    /\ args' = [args EXCEPT ![p] = NoArgs]
    /\ UNCHANGED <<dbType, lifecycle, store, now, ret>>

\* migrate() of the caller runs its statements and returns: no statement's
\* failure reaches the caller, who gets undefined.
MigrateRun(p) ==
    /\ pc[p] = "migrate"
    /\ \E failed \in SUBSET NeoConstraints :
          schema' = IF IsNeo THEN initializeSchema(failed) ELSE schema
    /\ Return(p, "migrate", <<>>, 0, UNDEFINED)
    /\ Done(p)
    /\ UNCHANGED <<dbType, lifecycle, views, sites, scans, tests, now>>

\* Mutant of EnsureSiteSelect: the existence check never finds the Site.
EnsureSiteSelectNeverFinds(p, k) ==
    /\ pc[p] = "idle"
    /\ pc' = [pc EXCEPT ![p] = "ensureSite"]
    /\ args' = [args EXCEPT ![p] =
                 [NoArgs EXCEPT !.key = k,
                                !.siteId = IF IsNeo THEN NeoSiteId(k) ELSE 0,
                                !.creationTime = now]]
    /\ UNCHANGED <<dbType, lifecycle, store, now, ret>>

\* ensureSite, first statement: the existence check. A caller that finds no
\* Site goes on to create one; the graph adapter computes the new id and the
\* creation time here.
EnsureSiteSelect(p, k) ==
    /\ pc[p] = "idle"
    /\ IF LatestSites(k) # {}
       THEN /\ \E i \in LatestSites(k) : Return(p, "ensureSite", k, 0, Val(sites[i].id))
            /\ UNCHANGED <<pc, args>>
       ELSE /\ pc' = [pc EXCEPT ![p] = "ensureSite"]
            /\ args' = [args EXCEPT ![p] =
                         [NoArgs EXCEPT !.key = k,
                                        !.siteId = IF IsNeo THEN NeoSiteId(k) ELSE 0,
                                        !.creationTime = now]]
            /\ UNCHANGED ret
    /\ UNCHANGED <<dbType, lifecycle, store, now>>

\* Mutant of EnsureSiteInsert: the engine's constraint error is caught and
\* the call returns undefined.
EnsureSiteInsertSwallows(p) ==
    /\ pc[p] = "ensureSite"
    /\ LET k == args[p].key
           site == IF IsPg THEN PgSiteRow(k)
                   ELSE NeoSiteNode(args[p].siteId, k, args[p].creationTime)
       IN  IF DomainConflict(k)
           THEN /\ Return(p, "ensureSite", k, 0, UNDEFINED)
                /\ UNCHANGED sites
           ELSE /\ sites' = Append(sites, site)
                /\ Return(p, "ensureSite", k, 0, Val(site.id))
    /\ Done(p)
    /\ UNCHANGED <<dbType, lifecycle, views, schema, scans, tests, now>>

\* ensureSite, second statement: the creation. The engine refuses it when it
\* enforces domain uniqueness and the domain is taken; the error reaches the
\* caller unchanged.
EnsureSiteInsert(p) ==
    /\ pc[p] = "ensureSite"
    /\ LET k == args[p].key
           site == IF IsPg THEN PgSiteRow(k)
                   ELSE NeoSiteNode(args[p].siteId, k, args[p].creationTime)
       IN  IF DomainConflict(k)
           THEN /\ Return(p, "ensureSite", k, 0, Err("ConstraintViolation"))
                /\ UNCHANGED sites
           ELSE /\ sites' = Append(sites, site)
                /\ Return(p, "ensureSite", k, 0, Val(site.id))
    /\ Done(p)
    /\ UNCHANGED <<dbType, lifecycle, views, schema, scans, tests, now>>

\* The Scan nodes MATCH (s:Site {id: siteId}) CREATE (scan:Scan ...) creates:
\* one for every Site node with that id.
NeoNewScans(siteId) ==
    LET n == Cardinality({i \in DOMAIN sites : sites[i].id = siteId})
    IN  [j \in 1..n |-> NeoScanNode(Len(scans) + j, siteId)]

\* Mutant of InsertScan: the Scan is created whether or not its Site exists
\* (no foreign key, no MATCH on the Site).
InsertScanNoParentCheck(p, siteId) ==
    /\ pc[p] = "idle"
    /\ Len(scans) < MaxScans
    /\ IF IsPg
       THEN /\ scans' = Append(scans, PgScanRow(siteId))
            /\ ReturnInsertScan(p, siteId, Len(scans) + 1, Val(PgScanRow(siteId)))
       ELSE /\ scans' = Append(scans, NeoScanNode(Len(scans) + 1, siteId))
            /\ ReturnInsertScan(p, siteId, Len(scans) + 1,
                      Val(NeoInsertScanReturn(NeoScanNode(Len(scans) + 1, siteId))))
    /\ UNCHANGED <<dbType, lifecycle, views, schema, sites, tests, now, pc, args>>

\* insertScan(siteId), called while fewer than MaxScans scans are stored.
\* Relational backend: the INSERT adds one row, and the engine refuses it
\* (scans.site_id is a foreign key) when no Site has the id. Graph backend:
\* the statement adds a Scan for every Site node it matches and the first
\* record is returned; with no match nothing is created and the adapter
\* throws "Site not found".
InsertScan(p, siteId) ==
    /\ pc[p] = "idle"
    /\ Len(scans) < MaxScans
    /\ IF IsPg
       THEN IF siteId \in SiteIds
            THEN /\ scans' = Append(scans, PgScanRow(siteId))
                 /\ ReturnInsertScan(p, siteId, Len(scans) + 1, Val(PgScanRow(siteId)))
            ELSE /\ scans' = scans
                 /\ ReturnInsertScan(p, siteId, 0, Err("NotFound"))
       ELSE /\ scans' = scans \o NeoNewScans(siteId)
            /\ IF NeoNewScans(siteId) = <<>>
               THEN ReturnInsertScan(p, siteId, 0, Err("NotFound"))
               ELSE ReturnInsertScan(p, siteId, Len(scans) + 1,
                           Val(NeoInsertScanReturn(NeoNewScans(siteId)[1])))
    /\ UNCHANGED <<dbType, lifecycle, views, schema, sites, tests, now, pc, args>>

\* The TestResults the calls in flight have still to write.
RECURSIVE PendingTests(_)
PendingTests(P) ==
    IF P = {} THEN 0
    ELSE LET p == CHOOSE q \in P : TRUE
         IN  (IF pc[p] = "insertTestResults"
              THEN Len(args[p].result.tests) - args[p].i ELSE 0)
             + PendingTests(P \ {p})

\* insertTestResults is invoked: the test values are computed from the
\* result, and the graph adapter takes its timestamp.
InsertTestResultsStart(p, scanId, r) ==
    /\ pc[p] = "idle"
    /\ Len(tests) + PendingTests(Procs) + Len(r.tests) <= MaxTests
    /\ pc' = [pc EXCEPT ![p] = "insertTestResults"]
    /\ args' = [args EXCEPT ![p] =
                 [NoArgs EXCEPT !.scanId = scanId,
                                !.siteId = IF scanId \notin ScanIds THEN AbsentSiteId
                                           ELSE IF IsPg THEN scans[scanId].site_id
                                           ELSE scans[scanId].siteId,
                                !.result = r,
                                !.timestamp = now]]
    /\ UNCHANGED <<dbType, lifecycle, store, now, ret>>

\* The rows of one INSERT INTO tests ... VALUES %L statement.
PgNewTests(siteId, scanId, r) ==
    [j \in DOMAIN r.tests |-> PgTestRow(Len(tests) + j, siteId, scanId, r.tests[j])]

\* Mutant of PgInsertTests: only the first row of the outcome map is inserted.
PgInsertTestsFirstOnly(p) ==
    /\ pc[p] = "insertTestResults" /\ IsPg
    /\ args[p].i < Len(args[p].result.tests)
    /\ tests' = Append(tests, PgNewTests(args[p].siteId, args[p].scanId, args[p].result)[1])
    /\ args' = [args EXCEPT ![p].i = Len(args[p].result.tests)]
    /\ UNCHANGED <<dbType, lifecycle, views, schema, sites, scans, now, pc, ret>>

\* Mutant of PgInsertTests: one INSERT statement per row.
PgInsertTestsOneByOne(p) ==
    /\ pc[p] = "insertTestResults" /\ IsPg
    /\ args[p].i < Len(args[p].result.tests)
    /\ tests' = Append(tests, PgTestRow(Len(tests) + 1, args[p].siteId, args[p].scanId,
                                        args[p].result.tests[args[p].i + 1]))
    /\ args' = [args EXCEPT ![p].i = args[p].i + 1]
    /\ UNCHANGED <<dbType, lifecycle, views, schema, sites, scans, now, pc, ret>>

\* Relational backend: the single multi-row INSERT of all TestResults, issued
\* when the outcome map is not empty. The engine refuses it (tests.scan_id is
\* a foreign key) when no Scan has the id, and the error reaches the caller.
PgInsertTests(p) ==
    /\ pc[p] = "insertTestResults" /\ IsPg
    /\ args[p].i < Len(args[p].result.tests)
    /\ IF args[p].scanId \in ScanIds
       THEN /\ tests' = tests \o PgNewTests(args[p].siteId, args[p].scanId, args[p].result)
            /\ args' = [args EXCEPT ![p].i = Len(args[p].result.tests)]
            /\ UNCHANGED <<pc, ret>>
       ELSE /\ Return(p, "insertTestResults", <<>>, args[p].scanId, Err("NotFound"))
            /\ Done(p)
            /\ UNCHANGED tests
    /\ UNCHANGED <<dbType, lifecycle, views, schema, sites, scans, now>>

\* Mutant of NeoCreateTest: the TestResult is created without the MATCH on its
\* scan, so it has no HAS_TEST relationship.
NeoCreateTestUnlinked(p) ==
    /\ pc[p] = "insertTestResults" /\ IsNeo
    /\ args[p].i < Len(args[p].result.tests)
    /\ tests' = Append(tests, NeoTestNode(Len(tests) + 1, 0,
                                          args[p].result.tests[args[p].i + 1]))
    /\ args' = [args EXCEPT ![p].i = args[p].i + 1]
    /\ UNCHANGED <<dbType, lifecycle, views, schema, sites, scans, now, pc, ret>>

\* Graph backend: one CREATE (test:TestResult ...) per loop iteration.
NeoCreateTest(p) ==
    /\ pc[p] = "insertTestResults" /\ IsNeo
    /\ args[p].i < Len(args[p].result.tests)
    /\ tests' = IF args[p].scanId \in ScanIds
                THEN Append(tests, NeoTestNode(Len(tests) + 1, args[p].scanId,
                                               args[p].result.tests[args[p].i + 1]))
                ELSE tests
    /\ args' = [args EXCEPT ![p].i = args[p].i + 1]
    /\ UNCHANGED <<dbType, lifecycle, views, schema, sites, scans, now, pc, ret>>

\* The Scan as the final statement of insertTestResults writes it.
FinalScan(p) ==
    IF IsPg THEN PgUpdateScan(scans[args[p].scanId], args[p].result.scan)
    ELSE NeoSetScan(scans[args[p].scanId], args[p].result.scan, args[p].timestamp)

\* The caller-facing shape of a stored Scan.
ScanRow(scan) == IF IsPg THEN scan ELSE mapScanRow(scan)

\* Mutant of InsertTestResultsUpdate: the Scan update does not wait for the
\* TestResult writes.
InsertTestResultsUpdateEarly(p) ==
    /\ pc[p] = "insertTestResults"
    /\ scans' = [scans EXCEPT ![args[p].scanId] = FinalScan(p)]
    /\ Return(p, "insertTestResults", <<>>, args[p].scanId, Val(ScanRow(FinalScan(p))))
    /\ Done(p)
    /\ UNCHANGED <<dbType, lifecycle, views, schema, sites, tests, now>>

\* What a statement on a Scan gives the caller when it matched no Scan: the
\* relational adapter returns rows[0] of no rows, the graph adapter reads
\* records[0].get(...) of no records and throws the TypeError.
NoScanMatched == IF IsPg THEN UNDEFINED ELSE Err("TypeError")

\* insertTestResults, last statement: the terminal update of the Scan, which
\* returns the updated record.
InsertTestResultsUpdate(p) ==
    /\ pc[p] = "insertTestResults"
    /\ args[p].i = Len(args[p].result.tests)
    /\ IF args[p].scanId \in ScanIds
       THEN /\ scans' = [scans EXCEPT ![args[p].scanId] = FinalScan(p)]
            /\ Return(p, "insertTestResults", <<>>, args[p].scanId,
                      Val(ScanRow(FinalScan(p))))
       ELSE /\ scans' = scans
            /\ Return(p, "insertTestResults", <<>>, args[p].scanId, NoScanMatched)
    /\ Done(p)
    /\ UNCHANGED <<dbType, lifecycle, views, schema, sites, tests, now>>

\* Mutant of UpdateScanState: the WHERE id = scanId condition left out of the
\* statement, so that every scan is updated.
UpdateScanStateEveryScan(p, scanId, state, error) ==
    /\ pc[p] = "idle"
    /\ scanId \in ScanIds
    /\ scans' = [i \in DOMAIN scans |->
                    IF IsPg THEN PgUpdateScanState(scans[i], state, error)
                    ELSE NeoUpdateScanState(scans[i], state, error)]
    /\ Return(p, "updateScanState", <<>>, scanId, Val(ScanRow(scans'[scanId])))
    /\ UNCHANGED <<dbType, lifecycle, views, schema, sites, tests, now, pc, args>>

\* updateScanState(scanId, state, error): one statement, which returns the
\* updated record.
UpdateScanState(p, scanId, state, error) ==
    /\ pc[p] = "idle"
    /\ IF scanId \in ScanIds
       THEN LET scan == IF IsPg THEN PgUpdateScanState(scans[scanId], state, error)
                        ELSE NeoUpdateScanState(scans[scanId], state, error)
            IN  /\ scans' = [scans EXCEPT ![scanId] = scan]
                /\ Return(p, "updateScanState", <<>>, scanId, Val(ScanRow(scan)))
       ELSE /\ scans' = scans
            /\ Return(p, "updateScanState", <<>>, scanId, NoScanMatched)
    /\ UNCHANGED <<dbType, lifecycle, views, schema, sites, tests, now, pc, args>>

\* What selectScan returns.
selectScan(scanId) ==
    IF scanId \in ScanIds THEN Val(ScanRow(scans[scanId])) ELSE UNDEFINED

\* Mutant of selectScanById: the state = FINISHED condition left out of the
\* query.
selectScanByIdAnyState(scanId) ==
    IF scanId \in ScanIds THEN Val(ScanRow(scans[scanId])) ELSE UNDEFINED

\* What selectScanById returns: the scan only when it is FINISHED.
selectScanById(scanId) ==
    IF scanId \in ScanIds /\ scans[scanId].state = ScanState.FINISHED
    THEN Val(ScanRow(scans[scanId]))
    ELSE UNDEFINED

\* What selectTestResults returns: the TestResults of the scan, in store order.
selectTestResults(scanId) ==
    IF IsPg
    THEN SelectSeq(tests, LAMBDA t : t.scan_id = scanId)
    ELSE LET own == SelectSeq(tests, LAMBDA t : t.scanId = scanId)
         IN  [j \in DOMAIN own |-> mapTestRow(own[j])]

\* A reader looks a scan up, with selectScan or with selectScanById, and
\* keeps what it saw.
Observe(p, op, scanId, val) ==
    /\ pc[p] = "idle"
    /\ pc' = [pc EXCEPT ![p] = "read"]
    /\ args' = [args EXCEPT ![p] = [NoArgs EXCEPT !.scanId = scanId, !.observed = val]]
    /\ Return(p, op, <<>>, scanId, val)
    /\ UNCHANGED <<dbType, lifecycle, store, now>>

SelectScan(p, scanId) == Observe(p, "selectScan", scanId, selectScan(scanId))

SelectScanById(p, scanId) == Observe(p, "selectScanById", scanId, selectScanById(scanId))

\* The reader then asks for the TestResults of the scan it looked up.
SelectTestResults(p) ==
    /\ pc[p] = "read"
    /\ Return(p, "selectTestResults", <<>>, args[p].scanId,
              Val(selectTestResults(args[p].scanId)))
    /\ Done(p)
    /\ UNCHANGED <<dbType, lifecycle, store, now>>

\* ---------------------------------------------------------------- history
\* The sequences that list the elements of S once each, in ascending order of
\* key: what ORDER BY may return (rows with equal keys come in any order).
SortedOrders(S, key) ==
    {q \in [1..Cardinality(S) -> S] :
        \A i, j \in 1..Cardinality(S) :
            i < j => (q[i] # q[j] /\ key[q[i]] <= key[q[j]])}

\* a IS DISTINCT FROM b: inequality that treats null as a value.
IsDistinctFrom(a, b) == ~NullEq(a, b)

\* ORDER BY end_time on the scans table T: ascending, NULLs last.
PgEndTimeKey(T) ==
    [i \in DOMAIN T |->
        IF IsNull(T[i].end_time) THEN HistoryTime + 1
        ELSE Unwrap(T[i].end_time).epochMillis]

PgStartTimeKey(T) == [i \in DOMAIN T |-> T[i].start_time.epochMillis]

\* round(extract(epoch from start_time)): seconds, rounded half up.
PgUnixTimestamp(date) == (date.epochMillis + 500) \div 1000

\* A row of the relational history: the scan's start_time under the name
\* end_time.
PgHistoryRow(row) ==
    [id |-> row.id, grade |-> row.grade, score |-> row.score,
     end_time |-> row.start_time,
     end_time_unix_timestamp |-> PgUnixTimestamp(row.start_time)]

\* The rows the relational query keeps, for one order q of the window
\* (ORDER BY end_time, the column of scans): those whose score IS DISTINCT
\* FROM LAG(score), which is NULL for the first row.
PgLagKept(T, q) ==
    {q[k] : k \in {k \in DOMAIN q :
                     IsDistinctFrom(T[q[k]].score,
                                    IF k = 1 THEN NULL ELSE T[q[k - 1]].score)}}

\* Mutant of PgHistory: the window runs over every scan of the table, and the
\* site and the state are tested afterwards.
PgHistoryWindowOverAll(T, siteId) ==
    LET rows == {i \in DOMAIN T :
                    T[i].site_id = siteId /\ T[i].state = ScanState.FINISHED}
    IN  UNION {{[k \in DOMAIN o |-> PgHistoryRow(T[o[k]])] :
                   o \in SortedOrders(PgLagKept(T, q) \cap rows, PgStartTimeKey(T))} :
               q \in SortedOrders(DOMAIN T, PgEndTimeKey(T))}

\* The relational history query over the scans table T: the FINISHED scans of
\* the site, filtered over the window, in the order of the outer ORDER BY
\* end_time (the alias: start_time). The set of results the engine may give.
PgHistory(T, siteId) ==
    LET rows == {i \in DOMAIN T :
                    T[i].site_id = siteId /\ T[i].state = ScanState.FINISHED}
    IN  UNION {{[k \in DOMAIN o |-> PgHistoryRow(T[o[k]])] :
                   o \in SortedOrders(PgLagKept(T, q), PgStartTimeKey(T))} :
               q \in SortedOrders(rows, PgEndTimeKey(T))}

\* selectScanHostHistory on the relational backend.
PgSelectScanHostHistory(siteId) == PgHistory(scans, siteId)

NeoStartTimeKey(T) == [i \in DOMAIN T |-> T[i].startTime]

\* toInteger(curr.startTime / 1000): integer division.
NeoUnixTimestamp(startTime) == startTime \div 1000

NeoHistoryRow(node) ==
    [id |-> node.id, grade |-> node.grade, score |-> node.score,
     end_time |-> Date(node.startTime),
     end_time_unix_timestamp |-> NeoUnixTimestamp(node.startTime)]

\* The nodes the graph query keeps, for one order q of the collected scans:
\* curr of every pair (prev, curr) = (scans[idx], scans[idx+1]), idx in
\* range(0, size-2), whose scores differ.
NeoPairsKept(T, q) ==
    {q[k + 1] : k \in {k \in 1..(Len(q) - 1) :
                         IsDistinctFrom(T[q[k]].score, T[q[k + 1]].score)}}

\* The graph history query over the Scan nodes T: the FINISHED scans of the
\* site that have a score, ordered by startTime, filtered pairwise, ordered by
\* history.end_time. The set of results the engine may give.
NeoHistory(T, siteId) ==
    LET nodes == {i \in DOMAIN T :
                     /\ T[i].siteId = siteId
                     /\ T[i].state = ScanState.FINISHED
                     /\ ~IsNull(T[i].score)}
    IN  UNION {{[k \in DOMAIN o |-> NeoHistoryRow(T[o[k]])] :
                   o \in SortedOrders(NeoPairsKept(T, q), NeoStartTimeKey(T))} :
               q \in SortedOrders(nodes, NeoStartTimeKey(T))}

\* selectScanHostHistory on the graph backend.
NeoSelectScanHostHistory(siteId) == NeoHistory(scans, siteId)

selectScanHostHistory(siteId) ==
    IF IsPg THEN PgSelectScanHostHistory(siteId) ELSE NeoSelectScanHostHistory(siteId)

\* A caller reads the history of a site.
SelectScanHostHistory(p, siteId) ==
    /\ pc[p] = "idle"
    /\ \E history \in selectScanHostHistory(siteId) :
          ret' = [caller |-> p, op |-> "selectScanHostHistory", key |-> <<>>,
                  scanId |-> 0, val |-> Val(history), prior |-> UNDEFINED,
                  observed |-> args[p].observed, siteId |-> Val(siteId), window |-> 0]
    /\ UNCHANGED <<dbType, lifecycle, store, now, pc, args>>

\* ------------------------------------------------------------- recent scans
\* start_time >= NOW() - INTERVAL 'w seconds' (graph adapter: startTime >=
\* Date.now() - w * 1000), on the millisecond clock.
StartedWithin(startMillis, w) == startMillis >= now - w * 1000

\* ORDER BY start_time DESC LIMIT 1 over the scans at the positions S: what
\* the caller gets, rows[0] of the result or undefined when it is empty (the
\* engine picks among scans started at the same instant).
LatestOf(S) ==
    IF S = {} THEN {UNDEFINED}
    ELSE {Val(ScanRow(scans[i])) :
             i \in {i \in S : \A j \in S :
                       ScanRow(scans[j]).start_time.epochMillis
                           <= ScanRow(scans[i]).start_time.epochMillis}}

\* Mutant of RecentScans: the state condition left out of the query.
RecentScansAnyState(siteId, w) ==
    {i \in DOMAIN scans :
        /\ ScanRow(scans[i]).site_id = siteId
        /\ StartedWithin(ScanRow(scans[i]).start_time.epochMillis, w)}

\* The scans the query of selectScanRecentScan selects: those of the site,
\* FINISHED, started within the window.
RecentScans(siteId, w) ==
    IF IsPg
    THEN {i \in DOMAIN scans :
             /\ scans[i].site_id = siteId
             /\ StartedWithin(scans[i].start_time.epochMillis, w)
             /\ scans[i].state = ScanState.FINISHED}
    ELSE {i \in DOMAIN scans :
             /\ scans[i].siteId = siteId
             /\ scans[i].state = ScanState.FINISHED
             /\ StartedWithin(scans[i].startTime, w)}

\* What selectScanRecentScan can return.
selectScanRecentScan(siteId, w) == LatestOf(RecentScans(siteId, w))

\* Mutant of HostScans: the Site is not matched on its domain.
HostScansAnySite(host, w) ==
    UNION {RecentScans(sites[k].id, w) : k \in DOMAIN sites}

\* The scans the query of selectScanLatestScanByHost selects: those of the
\* Sites whose domain is host (JOIN sites ON scans.site_id = sites.id; MATCH
\* (s:Site {domain})-[:HAS_SCAN]->(scan)), FINISHED, started within the window.
HostScans(host, w) ==
    UNION {RecentScans(sites[k].id, w) : k \in {k \in DOMAIN sites : sites[k].domain = host}}

\* What selectScanLatestScanByHost can return.
selectScanLatestScanByHost(host, w) == LatestOf(HostScans(host, w))

\* A caller asks for the recent scan of a site.
SelectScanRecentScan(p, siteId, w) ==
    /\ pc[p] = "idle"
    /\ \E val \in selectScanRecentScan(siteId, w) :
          ret' = [caller |-> p, op |-> "selectScanRecentScan", key |-> <<>>,
                  scanId |-> 0, val |-> val, prior |-> UNDEFINED,
                  observed |-> args[p].observed, siteId |-> Val(siteId), window |-> w]
    /\ UNCHANGED <<dbType, lifecycle, store, now, pc, args>>

\* A caller asks for the latest scan of a host.
SelectScanLatestScanByHost(p, host, w) ==
    /\ pc[p] = "idle"
    /\ \E val \in selectScanLatestScanByHost(host, w) :
          ret' = [caller |-> p, op |-> "selectScanLatestScanByHost", key |-> host,
                  scanId |-> 0, val |-> val, prior |-> UNDEFINED,
                  observed |-> args[p].observed, siteId |-> NULL, window |-> w]
    /\ UNCHANGED <<dbType, lifecycle, store, now, pc, args>>

\* ------------------------------------------------------ grade distribution
\* array['A+','A','A-','B+','B','B-','C+','C','C-','D+','D','D-','F']
GradeRanking ==
    <<"A+", "A", "A-", "B+", "B", "B-", "C+", "C", "C-", "D+", "D", "D-", "F">>

\* Mutant of GradePosition: the entries come in the order in which their
\* grade was first stored.
GradePositionByInsertion(grade) ==
    IF IsNull(grade) THEN Len(scans) + 1
    ELSE CHOOSE i \in DOMAIN scans :
            /\ scans[i].grade = grade
            /\ \A j \in DOMAIN scans : scans[j].grade = grade => i <= j

\* array_position(array[...], grade), and CASE grade WHEN 'A+' THEN 0 ... END
\* which is one less: null for a grade that is not in the list, and null
\* sorts after every position in an ascending ORDER BY.
GradePosition(grade) ==
    IF \E i \in DOMAIN GradeRanking : grade = Val(GradeRanking[i])
    THEN CHOOSE i \in DOMAIN GradeRanking : grade = Val(GradeRanking[i])
    ELSE Len(GradeRanking) + 1

\* count(*): the relational adapter passes the view's count on; the graph
\* driver returns a Cypher integer as an Integer object.
NeoInteger(n) == [low |-> n, high |-> 0]

\* The grades of the FINISHED scans.
FinishedGrades ==
    {scans[i].grade : i \in {i \in DOMAIN scans : scans[i].state = ScanState.FINISHED}}

\* The number of FINISHED scans of a grade.
FinishedCount(grade) ==
    Cardinality({i \in DOMAIN scans :
                    scans[i].state = ScanState.FINISHED /\ scans[i].grade = grade})

\* The query of the materialized view grade_distribution: the FINISHED scans
\* counted by grade.
GradeDistributionView ==
    {[grade |-> g, count |-> FinishedCount(g)] : g \in FinishedGrades}

\* Mutant of NeoGradeCounts: the state condition left out of the query.
NeoGradeCountsAnyState ==
    {[grade |-> g,
      count |-> NeoInteger(Cardinality({i \in DOMAIN scans : scans[i].grade = g}))] :
        g \in {scans[i].grade : i \in {i \in DOMAIN scans : ~IsNull(scans[i].grade)}}}

\* MATCH (scan:Scan) WHERE scan.state = $state AND scan.grade IS NOT NULL
\* WITH scan.grade as grade, count(*) as count
NeoGradeCounts ==
    {[grade |-> g, count |-> NeoInteger(FinishedCount(g))] :
        g \in {g \in FinishedGrades : ~IsNull(g)}}

\* ORDER BY the position of the grade: the orders the engine may return the
\* entries in.
OrderedByGrade(entries) ==
    {[k \in DOMAIN q |-> q[k]] :
        q \in SortedOrders(entries, [e \in entries |-> GradePosition(e.grade)])}

\* What selectGradeDistribution can return: the relational adapter reads the
\* materialized view, the graph adapter counts the stored scans.
selectGradeDistribution ==
    IF IsPg THEN OrderedByGrade(views) ELSE OrderedByGrade(NeoGradeCounts)

\* A caller asks for the grade distribution.
SelectGradeDistribution(p) ==
    /\ pc[p] = "idle"
    /\ \E distribution \in selectGradeDistribution :
          Return(p, "selectGradeDistribution", <<>>, 0, Val(distribution))
    /\ UNCHANGED <<dbType, lifecycle, store, now, pc, args>>

\* refreshMaterializedViews: REFRESH MATERIALIZED VIEW CONCURRENTLY
\* grade_distribution on the relational backend, nothing on the graph backend.
RefreshMaterializedViews(p) ==
    /\ pc[p] = "idle"
    /\ views' = IF IsPg THEN GradeDistributionView ELSE views
    /\ Return(p, "refreshMaterializedViews", <<>>, 0, UNDEFINED)
    /\ UNCHANGED <<dbType, lifecycle, schema, sites, scans, tests, now, pc, args>>

\* A caller is interrupted between two statements (the process crashes, or
\* the backend fails the next statement): the call in flight writes nothing
\* more and ends with the error.
Interrupt(p) ==
    /\ pc[p] # "idle"
    /\ Return(p, pc[p], args[p].key, args[p].scanId, Err("Interrupted"))
    /\ Done(p)
    /\ UNCHANGED <<dbType, lifecycle, store, now>>

Next ==
    \/ Tick
    \/ Migrate
    \/ \E p \in Procs, k \in Domains : EnsureSiteSelect(p, k)
    \/ \E p \in Procs : EnsureSiteInsert(p)
    \/ \E p \in Procs, siteId \in SiteIds : InsertScan(p, siteId)
    \/ \E p \in Procs, scanId \in ScanIds, r \in ScanResults :
          InsertTestResultsStart(p, scanId, r)
    \/ \E p \in Procs : PgInsertTests(p)
    \/ \E p \in Procs : NeoCreateTest(p)
    \/ \E p \in Procs : InsertTestResultsUpdate(p)
    \/ \E p \in Procs, scanId \in ScanIds, state \in ForcedStates, error \in ErrorArgs :
          UpdateScanState(p, scanId, state, error)
    \/ \E p \in Procs, scanId \in ScanIds : SelectScan(p, scanId)
    \/ \E p \in Procs, scanId \in ScanIds : SelectScanById(p, scanId)
    \/ \E p \in Procs : SelectTestResults(p)
    \/ \E p \in Procs, siteId \in SiteIds : SelectScanHostHistory(p, siteId)
    \/ \E p \in Procs, siteId \in SiteIds, w \in Windows : SelectScanRecentScan(p, siteId, w)
    \/ \E p \in Procs, host \in Domains, w \in Windows :
          SelectScanLatestScanByHost(p, host, w)
    \/ \E p \in Procs : SelectGradeDistribution(p)
    \/ \E p \in Procs : RefreshMaterializedViews(p)
    \/ \E p \in Procs : Interrupt(p)

Spec == Init /\ [][Next]_vars

\* -------------------------------------------------------------- scenarios
\* The state space of Spec is the product of everything every caller can do.
\* The scenarios below are Spec with the callers restricted to the
\* operations a group of properties is about; the actions are the same.

\* The key the callers of the scan scenarios scan.
ScanKey == <<"a", ".", "c">>

\* Sites only: callers race on ensureSite for every key, and migrate() runs
\* at any time.
NextSites ==
    \/ Tick
    \/ Migrate
    \/ \E p \in Procs, k \in Domains : EnsureSiteSelect(p, k)
    \/ \E p \in Procs : EnsureSiteInsert(p)
    \/ \E p \in Procs : Interrupt(p)

SpecSites == Init /\ [][NextSites]_vars

\* No call is in flight.
Quiet == \A q \in Procs : pc[q] = "idle"

\* Sites only, one call at a time: a call starts when no other is in flight.
NextSitesSequential ==
    \/ Tick
    \/ Migrate
    \/ \E p \in Procs, k \in Domains : Quiet /\ EnsureSiteSelect(p, k)
    \/ \E p \in Procs : EnsureSiteInsert(p)
    \/ \E p \in Procs : Interrupt(p)

SpecSitesSequential == Init /\ [][NextSitesSequential]_vars

\* No ensureSite call is between its existence check and its creation. The
\* scan scenarios set the scanned site up with one ensureSite call at a time:
\* the races on Site creation are the subject of the site scenarios.
NoSiteRace == \A q \in Procs : pc[q] # "ensureSite"

\* Scans, every writer unrestricted: insertTestResults and updateScanState on
\* any stored scan, in any state, any number of times, concurrently.
NextScans ==
    \/ Tick
    \/ \E p \in Procs : NoSiteRace /\ EnsureSiteSelect(p, ScanKey)
    \/ \E p \in Procs : EnsureSiteInsert(p)
    \/ \E p \in Procs, siteId \in SiteIds : InsertScan(p, siteId)
    \/ \E p \in Procs, scanId \in ScanIds, r \in ScanResults :
          InsertTestResultsStart(p, scanId, r)
    \/ \E p \in Procs : PgInsertTests(p)
    \/ \E p \in Procs : NeoCreateTest(p)
    \/ \E p \in Procs : InsertTestResultsUpdate(p)
    \/ \E p \in Procs, scanId \in ScanIds, state \in ForcedStates, error \in ErrorArgs :
          UpdateScanState(p, scanId, state, error)
    \/ \E p \in Procs : Interrupt(p)

SpecScans == Init /\ [][NextScans]_vars

\* An insertTestResults call on the scan is in flight.
InFlight(scanId) ==
    \E q \in Procs : pc[q] = "insertTestResults" /\ args[q].scanId = scanId

\* The scan lifecycle as the callers drive it: insertTestResults is invoked
\* on a scan that is RUNNING and has no call in flight (the first attempt, or
\* a retry after an interrupted one), nobody forces the state, and readers
\* look scans up at any time.
NextLifecycle ==
    \/ Tick
    \/ \E p \in Procs : NoSiteRace /\ EnsureSiteSelect(p, ScanKey)
    \/ \E p \in Procs : EnsureSiteInsert(p)
    \/ \E p \in Procs, siteId \in SiteIds : InsertScan(p, siteId)
    \/ \E p \in Procs, scanId \in ScanIds, r \in ScanResults :
          /\ scans[scanId].state = ScanState.RUNNING
          /\ ~InFlight(scanId)
          /\ InsertTestResultsStart(p, scanId, r)
    \/ \E p \in Procs : PgInsertTests(p)
    \/ \E p \in Procs : NeoCreateTest(p)
    \/ \E p \in Procs : InsertTestResultsUpdate(p)
    \/ \E p \in Procs, scanId \in ScanIds : SelectScan(p, scanId)
    \/ \E p \in Procs, scanId \in ScanIds : SelectScanById(p, scanId)
    \/ \E p \in Procs : SelectTestResults(p)
    \/ \E p \in Procs : Interrupt(p)

SpecLifecycle == Init /\ [][NextLifecycle]_vars

\* The scan lifecycle without interruptions: every insertTestResults call is
\* the first on its RUNNING scan and runs to completion, with readers at any
\* time.
NextFirstAttempt ==
    \/ Tick
    \/ \E p \in Procs : NoSiteRace /\ EnsureSiteSelect(p, ScanKey)
    \/ \E p \in Procs : EnsureSiteInsert(p)
    \/ \E p \in Procs, siteId \in SiteIds : InsertScan(p, siteId)
    \/ \E p \in Procs, scanId \in ScanIds, r \in ScanResults :
          /\ scans[scanId].state = ScanState.RUNNING
          /\ ~InFlight(scanId)
          /\ InsertTestResultsStart(p, scanId, r)
    \/ \E p \in Procs : PgInsertTests(p)
    \/ \E p \in Procs : NeoCreateTest(p)
    \/ \E p \in Procs : InsertTestResultsUpdate(p)
    \/ \E p \in Procs, scanId \in ScanIds : SelectScan(p, scanId)
    \/ \E p \in Procs, scanId \in ScanIds : SelectScanById(p, scanId)
    \/ \E p \in Procs : SelectTestResults(p)

SpecFirstAttempt == Init /\ [][NextFirstAttempt]_vars

\* The identifiers readers look up: those of the stored scans and one that no
\* scan has.
LookupIds == 1..(MaxScans + 1)

\* Readers against every writer: scans are finished by insertTestResults or
\* forced by updateScanState, and readers look up stored and absent ids.
NextReaders ==
    \/ Tick
    \/ \E p \in Procs : NoSiteRace /\ EnsureSiteSelect(p, ScanKey)
    \/ \E p \in Procs : EnsureSiteInsert(p)
    \/ \E p \in Procs, siteId \in SiteIds : InsertScan(p, siteId)
    \/ \E p \in Procs, scanId \in ScanIds, r \in ScanResults :
          /\ scans[scanId].state = ScanState.RUNNING
          /\ ~InFlight(scanId)
          /\ InsertTestResultsStart(p, scanId, r)
    \/ \E p \in Procs : PgInsertTests(p)
    \/ \E p \in Procs : NeoCreateTest(p)
    \/ \E p \in Procs : InsertTestResultsUpdate(p)
    \/ \E p \in Procs, scanId \in ScanIds, state \in ForcedStates, error \in ErrorArgs :
          UpdateScanState(p, scanId, state, error)
    \/ \E p \in Procs, scanId \in LookupIds : SelectScan(p, scanId)
    \/ \E p \in Procs, scanId \in LookupIds : SelectScanById(p, scanId)
    \/ \E p \in Procs : SelectTestResults(p)

SpecReaders == Init /\ [][NextReaders]_vars

\* Sites and their scans: callers race on ensureSite for every key, migrate()
\* runs at any time, and insertScan is called with the ids of stored Sites
\* and with an id no Site has.
NextInsertScan ==
    \/ Tick
    \/ Migrate
    \/ \E p \in Procs, k \in Domains : EnsureSiteSelect(p, k)
    \/ \E p \in Procs : EnsureSiteInsert(p)
    \/ \E p \in Procs, siteId \in SiteIds \cup {AbsentSiteId} : InsertScan(p, siteId)

SpecInsertScan == Init /\ [][NextInsertScan]_vars

\* A scan identifier no Scan ever has.
AbsentScanId == MaxScans + 1

\* Writers on stored and on unknown scans: insertTestResults and
\* updateScanState are called with the ids of stored scans and with an id no
\* scan has.
NextUnknownScan ==
    \/ Tick
    \/ \E p \in Procs : NoSiteRace /\ EnsureSiteSelect(p, ScanKey)
    \/ \E p \in Procs : EnsureSiteInsert(p)
    \/ \E p \in Procs, siteId \in SiteIds : InsertScan(p, siteId)
    \/ \E p \in Procs, scanId \in ScanIds \cup {AbsentScanId}, r \in ScanResults :
          InsertTestResultsStart(p, scanId, r)
    \/ \E p \in Procs : PgInsertTests(p)
    \/ \E p \in Procs : NeoCreateTest(p)
    \/ \E p \in Procs : InsertTestResultsUpdate(p)
    \/ \E p \in Procs, scanId \in ScanIds \cup {AbsentScanId},
          state \in ForcedStates, error \in ErrorArgs :
          UpdateScanState(p, scanId, state, error)

SpecUnknownScan == Init /\ [][NextUnknownScan]_vars

\* The histories of one site. A scan of the site was started at `start` and
\* is still RUNNING, or was forced to FINISHED by updateScanState without an
\* error message, or was finished by insertTestResults at `end` with a score
\* of 100 or of 90. Scans of a site can overlap: one started earlier can end
\* later.
HistoryOutcomes == {"running", "forced", "score100", "score90"}

HistoryChoices ==
    {c \in [start : 1..HistoryTime, end : 1..HistoryTime, outcome : HistoryOutcomes] :
        IF c.outcome \in {"running", "forced"} THEN c.end = c.start
        ELSE c.start <= c.end}

HistoryScore(c) ==
    IF c.outcome = "score100" THEN Val(100)
    ELSE IF c.outcome = "score90" THEN Val(90) ELSE NULL

HistoryGrade(c) ==
    IF c.outcome = "score100" THEN Val("A+")
    ELSE IF c.outcome = "score90" THEN Val("A") ELSE NULL

\* The site whose history is read, created at time 1, as the adapter of
\* backend b stores it.
HistorySiteOn(b) ==
    IF b = "postgresql" THEN [id |-> 1, domain |-> ScanKey, creation_time |-> Date(1)]
    ELSE NeoSiteNode([key |-> Sanitize(ScanKey), ts |-> 1], ScanKey, 1)

HistorySite == HistorySiteOn(backend)

\* The stored scan of choice c on backend b: what insertScan at c.start and
\* then the operation of c.outcome leave in the store.
HistoryScanOn(b, id, c) ==
    LET scored == ~IsNull(HistoryScore(c))
        state == IF c.outcome = "running" THEN ScanState.RUNNING ELSE ScanState.FINISHED
        count == IF scored THEN 2 ELSE 0
    IN  IF b = "postgresql"
        THEN [id |-> id, site_id |-> HistorySiteOn(b).id, state |-> state,
              start_time |-> Date(c.start),
              end_time |-> IF scored THEN Val(Date(c.end)) ELSE NULL,
              tests_failed |-> 0, tests_passed |-> count, tests_quantity |-> count,
              grade |-> HistoryGrade(c), score |-> HistoryScore(c), error |-> NULL,
              algorithm_version |-> ALGORITHM_VERSION]
        ELSE [id |-> id, siteId |-> HistorySiteOn(b).id, state |-> state,
              startTime |-> c.start,
              endTime |-> IF scored THEN Val(c.end) ELSE UNDEFINED,
              testsFailed |-> 0, testsPassed |-> count, testsQuantity |-> count,
              grade |-> NeoProp(HistoryGrade(c)), score |-> NeoProp(HistoryScore(c)),
              error |-> UNDEFINED,
              algorithmVersion |-> ALGORITHM_VERSION]

HistoryScan(id, c) == HistoryScanOn(backend, id, c)

\* The scans tables of up to HistoryScans scans of the site, in the order
\* they were started.
HistoryTables ==
    UNION {{[i \in 1..n |-> HistoryScan(i, t[i])] :
               t \in {t \in [1..n -> HistoryChoices] :
                         \A i, j \in 1..n : i < j => t[i].start <= t[j].start}} :
           n \in 0..HistoryScans}

InitHistory ==
    /\ dbType \in DbTypes
    /\ Serving
    /\ schema = IF IsPg THEN PgSchema ELSE {}
    /\ sites = <<HistorySite>>
    /\ scans \in HistoryTables
    /\ tests = <<>>
    /\ views = {}
    /\ now = HistoryTime
    /\ pc = [p \in Procs |-> "idle"]
    /\ args = [p \in Procs |-> NoArgs]
    /\ ret = NoRet

\* Readers of the history of the site, and of a site that does not exist.
NextHistory ==
    \E p \in Procs, siteId \in SiteIds \cup {AbsentSiteId} :
        SelectScanHostHistory(p, siteId)

SpecHistory == InitHistory /\ [][NextHistory]_vars

\* The stores the cache lookups read. The clock stands at CacheNow; a scan was
\* started 120 s ago, a millisecond more than 60 s ago, exactly 60 s ago, or
\* just now.
CacheNow == 180 * 1000
CacheStarts == {CacheNow - 120 * 1000, CacheNow - 60 * 1000 - 1, CacheNow - 60 * 1000, CacheNow}

\* The Sites of the store: one site, or two sites of two domains; on the graph
\* store without the Site.domain constraint also two Sites of one domain.
CacheSiteTables ==
    IF IsPg
    THEN {<<[id |-> 1, domain |-> ScanKey, creation_time |-> Date(1)]>>,
          <<[id |-> 1, domain |-> ScanKey, creation_time |-> Date(1)],
            [id |-> 2, domain |-> Sanitize(ScanKey), creation_time |-> Date(2)]>>}
    ELSE {<<NeoSiteNode([key |-> Sanitize(ScanKey), ts |-> 1], ScanKey, 1)>>} \cup
         {<<NeoSiteNode([key |-> Sanitize(ScanKey), ts |-> 1], ScanKey, 1),
            NeoSiteNode([key |-> Sanitize(ScanKey), ts |-> 2], k, 2)>> : k \in Domains}

\* What a scan went through after insertScan: nothing, insertTestResults with
\* a score, updateScanState(FAILED, "timeout"), or updateScanState(ABORTED).
CacheOutcomes == {"running", "finished", "failed", "aborted"}

\* The stored scan number id of the Site at position k, started at `start`,
\* after the operation of `outcome` (which ran at the same instant).
CacheScan(id, k, start, outcome) ==
    LET new == IF IsPg
               THEN [id |-> id, site_id |-> sites[k].id, state |-> ScanState.RUNNING,
                     start_time |-> Date(start), end_time |-> NULL,
                     tests_failed |-> 0, tests_passed |-> 0, tests_quantity |-> 0,
                     grade |-> NULL, score |-> NULL, error |-> NULL,
                     algorithm_version |-> ALGORITHM_VERSION]
               ELSE [NeoScanNode(id, sites[k].id) EXCEPT !.startTime = start]
    IN  IF outcome = "running" THEN new
        ELSE IF outcome = "finished"
        THEN IF IsPg
             THEN [PgUpdateScan(new, ResultFinished.scan) EXCEPT !.end_time = Val(Date(start))]
             ELSE NeoSetScan(new, ResultFinished.scan, start)
        ELSE IF outcome = "failed"
        THEN IF IsPg
             THEN [PgUpdateScanState(new, ScanState.FAILED, Val("timeout"))
                      EXCEPT !.end_time = Val(Date(start))]
             ELSE [NeoUpdateScanState(new, ScanState.FAILED, Val("timeout"))
                      EXCEPT !.endTime = Val(start)]
        ELSE IF IsPg THEN PgUpdateScanState(new, ScanState.ABORTED, NULL)
             ELSE NeoUpdateScanState(new, ScanState.ABORTED, NULL)

CacheChoices ==
    [site : DOMAIN sites, start : CacheStarts, outcome : CacheOutcomes]

\* The scans tables of up to CacheScans scans, in the order they were started.
CacheTables ==
    UNION {{[i \in 1..n |-> CacheScan(i, t[i].site, t[i].start, t[i].outcome)] :
               t \in {t \in [1..n -> CacheChoices] :
                         \A i, j \in 1..n : i < j => t[i].start <= t[j].start}} :
           n \in 0..CacheScans}

InitCache ==
    /\ dbType \in DbTypes
    /\ Serving
    /\ schema = IF IsPg THEN PgSchema ELSE {}
    /\ now = CacheNow
    /\ sites \in CacheSiteTables
    /\ scans \in CacheTables
    /\ tests = <<>>
    /\ views = {}
    /\ pc = [p \in Procs |-> "idle"]
    /\ args = [p \in Procs |-> NoArgs]
    /\ ret = NoRet

\* The cache lookups, by site id (stored and unknown) and by host.
NextCache ==
    \/ \E p \in Procs, siteId \in SiteIds \cup {AbsentSiteId}, w \in Windows :
          SelectScanRecentScan(p, siteId, w)
    \/ \E p \in Procs, host \in Domains, w \in Windows :
          SelectScanLatestScanByHost(p, host, w)

SpecCache == InitCache /\ [][NextCache]_vars

\* The stores the grade distribution is read from. A scan is RUNNING, was
\* failed or aborted by updateScanState, was forced to FINISHED by
\* updateScanState (it has no grade), or was finished by insertTestResults
\* with one of the grades of GradeInputs.
GradeInputs == {"A+", "A", "A-", "F"}
GradeOutcomes == {"running", "failed", "aborted", "forced"} \cup GradeInputs

GradeScan(id, outcome) ==
    IF outcome \in {"running", "failed", "aborted"} THEN CacheScan(id, 1, now, outcome)
    ELSE IF outcome = "forced"
    THEN IF IsPg
         THEN PgUpdateScanState(CacheScan(id, 1, now, "running"), ScanState.FINISHED, NULL)
         ELSE NeoUpdateScanState(CacheScan(id, 1, now, "running"), ScanState.FINISHED, NULL)
    ELSE [CacheScan(id, 1, now, "finished") EXCEPT !.grade = Val(outcome)]

\* The scans tables of up to GradeScans scans, in any order of their grades.
GradeTables ==
    UNION {{[i \in 1..n |-> GradeScan(i, t[i])] : t \in [1..n -> GradeOutcomes]} :
           n \in 0..GradeScans}

\* The materialized view is as the migration created it, on the empty store.
InitGrades ==
    /\ dbType \in DbTypes
    /\ Serving
    /\ schema = IF IsPg THEN PgSchema ELSE {}
    /\ now = 1
    /\ sites = <<HistorySite>>
    /\ scans \in GradeTables
    /\ tests = <<>>
    /\ views = {}
    /\ pc = [p \in Procs |-> "idle"]
    /\ args = [p \in Procs |-> NoArgs]
    /\ ret = NoRet

\* Readers of the grade distribution, the refresh of the materialized view,
\* and callers that abort a scan or finalize it themselves.
NextGrades ==
    \/ \E p \in Procs : SelectGradeDistribution(p)
    \/ \E p \in Procs : RefreshMaterializedViews(p)
    \/ \E p \in Procs, scanId \in ScanIds, state \in {ScanState.ABORTED, ScanState.FINISHED} :
          UpdateScanState(p, scanId, state, NULL)

SpecGrades == InitGrades /\ [][NextGrades]_vars

\* Every operation of the adapter, on a store that holds a site with no scan
\* yet or with FrameScans scans that are RUNNING: writers on any stored scan,
\* insertScan, ensureSite, migrate, refreshMaterializedViews and every
\* selector.
FrameSiteTables == {<<>>, <<HistorySite>>}

FrameScanTable ==
    IF sites = <<>> THEN <<>>
    ELSE [i \in 1..FrameScans |-> CacheScan(i, 1, now, "running")]

InitFrame ==
    /\ dbType \in DbTypes
    /\ Serving
    /\ schema = IF IsPg THEN PgSchema ELSE {}
    /\ now = 1
    /\ sites \in FrameSiteTables
    /\ scans = FrameScanTable
    /\ tests = <<>>
    /\ views = {}
    /\ pc = [p \in Procs |-> "idle"]
    /\ args = [p \in Procs |-> NoArgs]
    /\ ret = NoRet

NextFrame ==
    \/ Quiet /\ Migrate
    \/ \E p \in Procs : Quiet /\ EnsureSiteSelect(p, ScanKey)
    \/ \E p \in Procs : EnsureSiteInsert(p)
    \/ \E p \in Procs, siteId \in SiteIds : Quiet /\ InsertScan(p, siteId)
    \/ \E p \in Procs, scanId \in ScanIds, r \in ScanResults :
          /\ scans[scanId].state = ScanState.RUNNING
          /\ ~InFlight(scanId)
          /\ InsertTestResultsStart(p, scanId, r)
    \/ \E p \in Procs : PgInsertTests(p)
    \/ \E p \in Procs : NeoCreateTest(p)
    \/ \E p \in Procs : InsertTestResultsUpdate(p)
    \/ \E p \in Procs, scanId \in ScanIds, state \in ForcedStates :
          UpdateScanState(p, scanId, state, NULL)
    \/ \E p \in Procs, scanId \in ScanIds : Quiet /\ SelectScan(p, scanId)
    \/ \E p \in Procs, scanId \in ScanIds : Quiet /\ SelectScanById(p, scanId)
    \/ \E p \in Procs : SelectTestResults(p)
    \/ \E p \in Procs, siteId \in SiteIds : Quiet /\ SelectScanHostHistory(p, siteId)
    \/ \E p \in Procs, siteId \in SiteIds : Quiet /\ SelectScanRecentScan(p, siteId, 60)
    \/ \E p \in Procs : Quiet /\ SelectScanLatestScanByHost(p, ScanKey, 60)
    \/ \E p \in Procs : Quiet /\ SelectGradeDistribution(p)
    \/ \E p \in Procs : Quiet /\ RefreshMaterializedViews(p)

SpecFrame == InitFrame /\ [][NextFrame]_vars

\* Schema initialisation by the callers: migrate() is invoked when no call is
\* in flight, before and after callers race on ensureSite.
NextMigrate ==
    \/ Tick
    \/ \E p \in Procs : Quiet /\ MigrateStart(p)
    \/ \E p \in Procs : MigrateRun(p)
    \/ \E p \in Procs, k \in Domains : EnsureSiteSelect(p, k)
    \/ \E p \in Procs : EnsureSiteInsert(p)
    \/ \E p \in Procs : Interrupt(p)

SpecMigrate == Init /\ [][NextMigrate]_vars

\* The backend names a deployment may configure: the two the factory names,
\* and names it does not know.
ConfiguredTypes == DbTypes \cup {"mongodb", "Neo4j"}

\* The adapter is created from any configured name; the callers then ensure
\* sites one call at a time.
InitFactory ==
    /\ dbType \in ConfiguredTypes
    /\ Serving
    /\ schema = IF IsPg THEN PgSchema ELSE {}
    /\ sites = <<>>
    /\ scans = <<>>
    /\ tests = <<>>
    /\ views = {}
    /\ now = 1
    /\ pc = [p \in Procs |-> "idle"]
    /\ args = [p \in Procs |-> NoArgs]
    /\ ret = NoRet

SpecFactory == InitFactory /\ [][NextSitesSequential]_vars

\* The adapter can run statements: it holds resources and none of them ended.
Usable == Held # <<>> /\ Range(Held) \subseteq Open

\* An adapter fresh from the factory, on an empty store.
InitUnpooled ==
    /\ dbType \in DbTypes
    /\ adapter = Unpooled
    /\ connections = [opened |-> {}, ended |-> <<>>]
    /\ calls = <<>>
    /\ fastify = Unregistered
    /\ schema = IF IsPg THEN PgSchema ELSE {}
    /\ sites = <<>>
    /\ scans = <<>>
    /\ tests = <<>>
    /\ views = {}
    /\ now = 1
    /\ pc = [p \in Procs |-> "idle"]
    /\ args = [p \in Procs |-> NoArgs]
    /\ ret = NoRet

\* The owner of an adapter calls createPool and close in any order; callers
\* ensure sites, one call at a time, while the adapter can run statements.
NextConnections ==
    \/ \E ok \in BOOLEAN : CreatePool(ok)
    \/ \E failAt \in 0..2 : Close(failAt)
    \/ \E p \in Procs, k \in Domains : Quiet /\ Usable /\ EnsureSiteSelect(p, k)
    \/ \E p \in Procs : Usable /\ EnsureSiteInsert(p)

SpecConnections == InitUnpooled /\ [][NextConnections]_vars

\* The server registers the database plugin, serves callers that ensure sites
\* through fastify.db, one call at a time, and closes.
NextPlugin ==
    \/ \E ok \in BOOLEAN : PluginCreateAdapter(ok)
    \/ \E ok \in BOOLEAN : PluginCreatePool(ok)
    \/ \E failAt \in 0..2 : PluginOnClose(failAt)
    \/ \E p \in Procs, k \in Domains :
          Quiet /\ fastify.stage = "registered" /\ EnsureSiteSelect(p, k)
    \/ \E p \in Procs : fastify.stage = "registered" /\ EnsureSiteInsert(p)
    \/ Tick

SpecPlugin == InitUnpooled /\ [][NextPlugin]_vars

\* The histories of two sites. A scan of either site was started at `start`
\* and is still RUNNING, or was finished at once by insertTestResults with a
\* score of 100 or of 90, or without a score (FAILED), or was finished with a
\* score of 90 and then moved to ABORTED by updateScanState.
SiteHistoryOutcomes == {"running", "failed", "aborted90", "score100", "score90"}

SiteHistoryChoices ==
    [site : 1..2, start : 1..SiteHistoryTime, outcome : SiteHistoryOutcomes]

\* The stored scan number id of choice c.
SiteHistoryScan(id, c) ==
    LET scored == [start |-> c.start, end |-> c.start,
                   outcome |-> IF c.outcome = "score100" THEN "score100" ELSE "score90"]
        own == IF IsPg
               THEN [HistoryScan(id, scored) EXCEPT !.site_id = sites[c.site].id]
               ELSE [HistoryScan(id, scored) EXCEPT !.siteId = sites[c.site].id]
    IN  IF c.outcome \in {"running", "failed"}
        THEN CacheScan(id, c.site, c.start, c.outcome)
        ELSE IF c.outcome = "aborted90"
        THEN IF IsPg THEN PgUpdateScanState(own, ScanState.ABORTED, NULL)
             ELSE NeoUpdateScanState(own, ScanState.ABORTED, NULL)
        ELSE own

\* The scans tables of up to SiteHistoryScans scans, in the order they were
\* started.
SiteHistoryTables ==
    UNION {{[i \in 1..n |-> SiteHistoryScan(i, t[i])] :
               t \in {t \in [1..n -> SiteHistoryChoices] :
                         \A i, j \in 1..n : i < j => t[i].start <= t[j].start}} :
           n \in 0..SiteHistoryScans}

InitSiteHistory ==
    /\ dbType \in DbTypes
    /\ Serving
    /\ schema = IF IsPg THEN PgSchema ELSE {}
    /\ now = SiteHistoryTime
    /\ sites = IF IsPg
               THEN <<[id |-> 1, domain |-> ScanKey, creation_time |-> Date(1)],
                      [id |-> 2, domain |-> Sanitize(ScanKey), creation_time |-> Date(1)]>>
               ELSE <<NeoSiteNode([key |-> Sanitize(ScanKey), ts |-> 1], ScanKey, 1),
                      NeoSiteNode([key |-> Sanitize(ScanKey), ts |-> 2],
                                  Sanitize(ScanKey), 2)>>
    /\ scans \in SiteHistoryTables
    /\ tests = <<>>
    /\ views = {}
    /\ pc = [p \in Procs |-> "idle"]
    /\ args = [p \in Procs |-> NoArgs]
    /\ ret = NoRet

SpecSiteHistory == InitSiteHistory /\ [][NextHistory]_vars

\* The scan lifecycle with results whose outcome map is empty, next to one
\* that has tests: every insertTestResults call is the first on its RUNNING
\* scan and runs to completion.
NextEmptyResults ==
    \/ Tick
    \/ \E p \in Procs : NoSiteRace /\ EnsureSiteSelect(p, ScanKey)
    \/ \E p \in Procs : EnsureSiteInsert(p)
    \/ \E p \in Procs, siteId \in SiteIds : InsertScan(p, siteId)
    \/ \E p \in Procs, scanId \in ScanIds, r \in EmptyResults \cup {ResultFinished} :
          /\ scans[scanId].state = ScanState.RUNNING
          /\ ~InFlight(scanId)
          /\ InsertTestResultsStart(p, scanId, r)
    \/ \E p \in Procs : PgInsertTests(p)
    \/ \E p \in Procs : NeoCreateTest(p)
    \/ \E p \in Procs : InsertTestResultsUpdate(p)
    \/ \E p \in Procs, scanId \in ScanIds : SelectScan(p, scanId)
    \/ \E p \in Procs : SelectTestResults(p)

SpecEmptyResults == Init /\ [][NextEmptyResults]_vars

\* ---------------------------------------------------------------- sessions
\* The sessions of the graph adapter: createPool opens one session on the
\* driver and keeps it in this.session; no operation opens another.
NeoSessions == {"this.session"}

\* The session the statements of the call of p run on: every operation of the
\* graph adapter calls this.session.run.
SessionOf(p) == CHOOSE s \in NeoSessions : TRUE

\* The callers with a call in flight: the call has run a statement and has
\* not returned.
InFlightCalls == {p \in Procs : pc[p] # "idle"}

\* ------------------------------------------------------------- properties
\* The record selectScan returns for a stored scan.
ScanView(s) == ScanRow(scans[s])

\* The scan result a terminal scan record was written from.
ResultOf(row) ==
    CHOOSE r \in ScanResults :
        /\ NullEq(row.score, r.scan.score)
        /\ NullEq(row.error, r.scan.error)
        /\ row.tests_quantity = r.scan.testsQuantity

\* rows holds a TestResult of scan s for the entry e of an outcome map.
Holds(rows, s, e) ==
    \E i \in DOMAIN rows :
        /\ rows[i].scan_id = s
        /\ rows[i].name = e.name
        /\ rows[i].result = e.result

\* rows holds a TestResult of scan s for every entry of r's outcome map.
Covers(rows, s, r) == \A j \in DOMAIN r.tests : Holds(rows, s, r.tests[j])

\* A step in which caller p's call `op` ends without having been interrupted.
Completes(p, op) ==
    /\ pc[p] = op
    /\ pc'[p] = "idle"
    /\ ret'.val # Err("Interrupted")

\* A step in which caller p's call `op` is interrupted.
Interrupted(p, op) ==
    /\ pc[p] = op
    /\ pc'[p] = "idle"
    /\ ret'.val = Err("Interrupted")

\* C1: terminal states are absorbing: once a scan is FINISHED, FAILED or
\* ABORTED, no step (no insertTestResults, no updateScanState) changes its
\* state or any of its fields.
C1_TerminalStatesAbsorbing ==
    [][\A s \in ScanIds : scans[s].state \in Terminal => scans'[s] = scans[s]]_vars

\* C2: a reader that saw the scan in a terminal state (with selectScan or
\* selectScanById) and then calls selectTestResults gets a TestResult for
\* every entry of the outcome map the scan was finished with.
C2_ReaderOfTerminalScanGetsAllTestResults ==
    (/\ ret.op = "selectTestResults"
     /\ ~IsNull(ret.observed)
     /\ Unwrap(ret.observed).state \in Terminal)
    => Covers(Unwrap(ret.val), ret.scanId, ResultOf(Unwrap(ret.observed)))

\* C2 witness: a reader saw a terminal scan and then got its TestResults.
C2_Witness ==
    /\ ret.op = "selectTestResults"
    /\ ~IsNull(ret.observed)
    /\ Unwrap(ret.observed).state \in Terminal
    /\ Len(Unwrap(ret.val)) > 0

\* C3: an insertTestResults call interrupted before its final Scan update
\* leaves the scan RUNNING, and no scan is ever FINISHED or FAILED with a
\* TestResult of its outcome map missing.
C3_InterruptedLeavesScanRunning ==
    [][/\ \A p \in Procs, s \in ScanIds :
             (Interrupted(p, "insertTestResults") /\ args[p].scanId = s)
             => ScanRow(scans'[s]).state = ScanState.RUNNING
       /\ \A s \in ScanIds :
             ScanRow(scans'[s]).state \in {ScanState.FINISHED, ScanState.FAILED}
             => Covers(selectTestResults(s)', s, ResultOf(ScanRow(scans'[s])))]_vars

\* C3 witness: a call was interrupted after it wrote TestResults, and the
\* scan is RUNNING.
C3_Witness ==
    /\ ret.op = "insertTestResults"
    /\ ret.val = Err("Interrupted")
    /\ Len(selectTestResults(ret.scanId)) > 0
    /\ ScanView(ret.scanId).state = ScanState.RUNNING

\* C4: a scan that reached FINISHED or FAILED, also through a retry of an
\* interrupted insertTestResults, has exactly one TestResult per entry of its
\* outcome map and no other.
C4_RetryLeavesOneTestResultPerEntry ==
    \A s \in ScanIds :
        ScanView(s).state \in {ScanState.FINISHED, ScanState.FAILED}
        => LET rows == selectTestResults(s)
               r == ResultOf(ScanView(s))
           IN  /\ Len(rows) = Len(r.tests)
               /\ Covers(rows, s, r)

\* The TestResults rows are whole outcome maps, one after the other.
RECURSIVE WholeBatches(_)
WholeBatches(rows) ==
    \/ rows = <<>>
    \/ \E r \in ScanResults :
          /\ Len(r.tests) <= Len(rows)
          /\ \A j \in DOMAIN r.tests :
                rows[j].name = r.tests[j].name /\ rows[j].result = r.tests[j].result
          /\ WholeBatches(SubSeq(rows, Len(r.tests) + 1, Len(rows)))

C6_StateFollowsScore ==
    [][\A p \in Procs, s \in ScanIds :
          (/\ Completes(p, "insertTestResults")
           /\ args[p].scanId = s
           /\ scans[s].state = ScanState.RUNNING)
          => LET row == ScanRow(scans'[s])
             IN  IF IsNull(args[p].result.scan.score)
                 THEN row.state = ScanState.FAILED /\ ~IsNull(row.error)
                 ELSE /\ row.state = ScanState.FINISHED
                      /\ ~IsNull(row.grade)
                      /\ ~IsNull(row.score)]_vars

\* No domain has two Sites.
NoTwoSitesOfADomain ==
    \A i, j \in DOMAIN sites : sites[i].domain = sites[j].domain => i = j

C8_EnsureSiteIdempotent ==
    [][(/\ ret'.op = "ensureSite"
        /\ ret' # ret \/ sites' # sites
        /\ ret'.val # Err("Interrupted")
        /\ ~IsNull(ret'.prior))
       => ret'.val = ret'.prior /\ sites' = sites]_vars

\* C8 witness: a second ensureSite for a key returned what the first returned.
C8_Witness ==
    /\ ret.op = "ensureSite"
    /\ ~IsNull(ret.prior)
    /\ ret.val = ret.prior

C10_FinishedHasScore ==
    \A s \in ScanIds :
        ScanView(s).state = ScanState.FINISHED => ~IsNull(ScanView(s).score)

\* C11: a scan whose state is FAILED has a non-null error.
C11_FailedHasError ==
    \A s \in ScanIds :
        ScanView(s).state = ScanState.FAILED => ~IsNull(ScanView(s).error)

\* C12: every scan's state is RUNNING, FINISHED, FAILED or ABORTED, and an
\* updateScanState call only ever leaves its scan ABORTED or FAILED.
C12_UpdateScanStateOnlyAbortsOrFails ==
    [][/\ \A s \in DOMAIN scans' :
             scans'[s].state \in {ScanState.RUNNING, ScanState.FINISHED,
                                  ScanState.FAILED, ScanState.ABORTED}
       /\ (ret'.op = "updateScanState" /\ ret' # ret)
          => scans'[ret'.scanId].state \in {ScanState.ABORTED, ScanState.FAILED}]_vars

\* C13: the TestResults of a scan that is terminal never change: no step
\* adds, removes or modifies a TestResult of a FINISHED, FAILED or ABORTED
\* scan.
C13_TestResultsOfTerminalScanImmutable ==
    [][\A s \in ScanIds :
          ScanRow(scans[s]).state \in Terminal
          => selectTestResults(s)' = selectTestResults(s)]_vars

\* C14: after insertTestResults has completed on a RUNNING scan with an
\* outcome map of n check names, selectTestResults returns exactly n records,
\* one per check name, each owned by the scan.
C14_OneTestResultPerCheckName ==
    \A s \in ScanIds :
        ScanView(s).state \in {ScanState.FINISHED, ScanState.FAILED}
        => LET rows == selectTestResults(s)
               r == ResultOf(ScanView(s))
           IN  /\ Len(rows) = Len(r.tests)
               /\ \A j \in DOMAIN r.tests :
                     Cardinality({i \in DOMAIN rows : rows[i].name = r.tests[j].name}) = 1
               /\ \A i \in DOMAIN rows : rows[i].scan_id = s

\* C14 witness: a reader gets the two records of a scan finished with the
\* outcome map {csp, hsts}.
C14_Witness ==
    /\ ret.op = "selectTestResults"
    /\ ~IsErr(ret.val)
    /\ ret.scanId \in ScanIds
    /\ ScanView(ret.scanId).state = ScanState.FINISHED
    /\ Len(Unwrap(ret.val)) = 2
    /\ {Unwrap(ret.val)[i].name : i \in 1..2} = {"csp", "hsts"}

\* C15: selectScanById never returns a scan whose state is not FINISHED: for
\* the id of a RUNNING, FAILED or ABORTED scan, and for an id no scan has, it
\* returns undefined.
C15_SelectScanByIdOnlyFinished ==
    [][\A p \in Procs, id \in LookupIds :
          (/\ pc[p] = "idle"
           /\ pc'[p] = "read"
           /\ ret'.op = "selectScanById"
           /\ ret'.scanId = id)
          => /\ ~IsNull(ret'.val) => Unwrap(ret'.val).state = ScanState.FINISHED
             /\ (id \notin ScanIds \/ ScanView(id).state # ScanState.FINISHED)
                => ret'.val = UNDEFINED]_vars

\* C15 witness: selectScanById returned undefined for a stored scan that is
\* FAILED.
C15_Witness ==
    /\ ret.op = "selectScanById"
    /\ ret.val = UNDEFINED
    /\ ret.scanId \in ScanIds
    /\ ScanView(ret.scanId).state = ScanState.FAILED

\* Two scan records are the same scan with the same field values.
SameScan(a, b) ==
    /\ a.id = b.id /\ a.site_id = b.site_id /\ a.state = b.state
    /\ a.start_time = b.start_time /\ NullEq(a.end_time, b.end_time)
    /\ a.tests_failed = b.tests_failed /\ a.tests_passed = b.tests_passed
    /\ a.tests_quantity = b.tests_quantity
    /\ NullEq(a.grade, b.grade) /\ NullEq(a.score, b.score)
    /\ NullEq(a.error, b.error)
    /\ a.algorithm_version = b.algorithm_version

\* C16: insertScan(siteId) for an existing Site creates exactly one new Scan,
\* in state RUNNING with tests_passed, tests_failed and tests_quantity 0,
\* start_time the current time and end_time, grade, score and error null,
\* and returns that record with its new identifier.
C16_InsertScanCreatesOneRunningScan ==
    [][(/\ ret'.op = "insertScan"
        /\ ret' # ret \/ scans' # scans
        /\ ~IsErr(ret'.val))
       => /\ Len(scans') = Len(scans) + 1
          /\ LET row == ScanRow(scans'[Len(scans')])
             IN  /\ SameScan(Unwrap(ret'.val), row)
                 /\ row.id \notin {ScanRow(scans[i]).id : i \in DOMAIN scans}
                 /\ row.state = ScanState.RUNNING
                 /\ row.tests_passed = 0 /\ row.tests_failed = 0
                 /\ row.tests_quantity = 0
                 /\ row.start_time = Date(now)
                 /\ IsNull(row.end_time) /\ IsNull(row.grade)
                 /\ IsNull(row.score) /\ IsNull(row.error)]_vars

\* C17: insertScan with a siteId no Site has fails with the NotFound error and
\* creates no Scan: the store is unchanged.
C17_InsertScanUnknownSiteFails ==
    [][(/\ ret'.op = "insertScan"
        /\ ret' # ret \/ scans' # scans
        /\ Unwrap(ret'.siteId) \notin SiteIds)
       => (ret'.val = Err("NotFound") /\ store' = store)]_vars

\* C17 witness: an insertScan call for an id no Site has failed with NotFound,
\* while Sites are stored and no Scan is.
C17_Witness ==
    /\ ret.op = "insertScan"
    /\ Unwrap(ret.siteId) \notin SiteIds
    /\ ret.val = Err("NotFound")
    /\ sites # <<>>
    /\ scans = <<>>

\* C18: insertTestResults or updateScanState invoked with a scanId no Scan has
\* throws an error to the caller, creates no TestResult and changes no Scan.
C18_UnknownScanThrows ==
    [][/\ \A p \in Procs :
             (pc[p] = "insertTestResults" /\ args[p].scanId = AbsentScanId)
             => (tests' = tests /\ scans' = scans)
       /\ (/\ ret'.op \in {"insertTestResults", "updateScanState"}
           /\ ret' # ret
           /\ ret'.scanId = AbsentScanId)
          => (IsErr(ret'.val) /\ tests' = tests /\ scans' = scans)]_vars

\* The FINISHED scans of a site, and the earliest of them.
FinishedScans(siteId) ==
    {i \in DOMAIN scans :
        ScanRow(scans[i]).site_id = siteId /\ scans[i].state = ScanState.FINISHED}

EarliestFinished(siteId) ==
    {i \in FinishedScans(siteId) :
        \A j \in FinishedScans(siteId) :
            ScanRow(scans[i]).start_time.epochMillis
                <= ScanRow(scans[j]).start_time.epochMillis}

\* The scans of the table follow each other: each ended before the next was
\* started.
Chronological ==
    \A i \in DOMAIN scans :
        /\ ~IsNull(ScanRow(scans[i]).end_time)
        /\ i + 1 \in DOMAIN scans
           => Unwrap(ScanRow(scans[i]).end_time).epochMillis
                 < ScanRow(scans[i + 1]).start_time.epochMillis

\* C19: selectScanHostHistory always includes the earliest FINISHED scan of
\* the site as its first entry: for one FINISHED scan it returns one entry,
\* and for three FINISHED scans with the scores 100, 100, 90 in chronological
\* order exactly the two entries (100, 90).
C19_HistoryStartsWithEarliestFinished ==
    (ret.op = "selectScanHostHistory" /\ Unwrap(ret.siteId) \in SiteIds)
    => LET history == Unwrap(ret.val)
           finished == FinishedScans(Unwrap(ret.siteId))
       IN  /\ finished # {}
              => /\ Len(history) >= 1
                 /\ \E i \in EarliestFinished(Unwrap(ret.siteId)) :
                       history[1].id = scans[i].id
           /\ Cardinality(finished) = 1 => Len(history) = 1
           /\ (/\ Len(scans) = 3
               /\ Chronological
               /\ \A i \in 1..3 : scans[i].state = ScanState.FINISHED
               /\ <<scans[1].score, scans[2].score, scans[3].score>>
                     = <<Val(100), Val(100), Val(90)>>)
              => (/\ Len(history) = 2
                  /\ history[1].score = Val(100)
                  /\ history[2].score = Val(90))

\* C20: the output of selectScanHostHistory has no two adjacent entries with
\* equal score.
C20_HistoryAdjacentScoresDiffer ==
    ret.op = "selectScanHostHistory"
    => LET history == Unwrap(ret.val)
       IN  \A k \in 1..(Len(history) - 1) :
               IsDistinctFrom(history[k].score, history[k + 1].score)

\* The operations a stored scan of the history scenario went through, read
\* off its record.
HistoryChoiceOf(row) ==
    [start |-> row.start_time.epochMillis,
     end |-> IF IsNull(row.end_time) THEN row.start_time.epochMillis
             ELSE Unwrap(row.end_time).epochMillis,
     outcome |-> IF row.state = ScanState.RUNNING THEN "running"
                 ELSE IF IsNull(row.score) THEN "forced"
                 ELSE IF row.score = Val(100) THEN "score100" ELSE "score90"]

\* The scans the adapter of backend b stores after the operations that
\* produced the stored scans.
SameOperationsOn(b) ==
    [i \in DOMAIN scans |-> HistoryScanOn(b, i, HistoryChoiceOf(ScanRow(scans[i])))]

\* The (grade, score) entries of a history; an absent grade or score is null.
GradeScores(history) ==
    [k \in DOMAIN history |->
        <<IF IsNull(history[k].grade) THEN NULL ELSE history[k].grade,
          IF IsNull(history[k].score) THEN NULL ELSE history[k].score>>]

\* The (grade, score) sequences selectScanHostHistory can return for the
\* scanned site on the adapter of the other backend, after the same operations.
OtherBackendGradeScores ==
    IF IsPg
    THEN {GradeScores(h) : h \in NeoHistory(SameOperationsOn("neo4j"), HistorySiteOn("neo4j").id)}
    ELSE {GradeScores(h) : h \in PgHistory(SameOperationsOn("postgresql"),
                                           HistorySiteOn("postgresql").id)}

\* C21: for the same sequence of operations applied to a relational-backed and
\* a graph-backed adapter, selectScanHostHistory returns the same sequence of
\* (grade, score) entries on both: what one backend returns for the site is
\* what the other returns after the same operations.
C21_HistorySameOnBothBackends ==
    (ret.op = "selectScanHostHistory" /\ Unwrap(ret.siteId) \in SiteIds)
    => GradeScores(Unwrap(ret.val)) \in OtherBackendGradeScores

\* The FINISHED scans of the site siteId started within w seconds of now, as
\* callers see them.
FinishedWithin(siteId, w) ==
    {i \in DOMAIN scans :
        /\ ScanRow(scans[i]).site_id = siteId
        /\ ScanRow(scans[i]).state = ScanState.FINISHED
        /\ now - ScanRow(scans[i]).start_time.epochMillis <= w * 1000}

\* C22: selectScanRecentScan(siteId, w) returns the FINISHED scan of that site
\* with the greatest start time among those with start_time >= now - w
\* seconds, and undefined when there is none; scans in other states and scans
\* of other sites are never returned.
C22_RecentScanIsLatestFinishedInWindow ==
    ret.op = "selectScanRecentScan"
    => LET siteId == Unwrap(ret.siteId)
           within == FinishedWithin(siteId, ret.window)
       IN  IF within = {} THEN ret.val = UNDEFINED
           ELSE \E i \in within :
                   /\ ret.val = Val(ScanRow(scans[i]))
                   /\ \A j \in within :
                         ScanRow(scans[j]).start_time.epochMillis
                             <= ScanRow(scans[i]).start_time.epochMillis

\* The scenario of the claim: window 60, and the only FINISHED scan of the
\* site started 120 s ago: the call returned undefined.
C22_Witness ==
    /\ ret.op = "selectScanRecentScan" /\ ret.window = 60
    /\ Unwrap(ret.siteId) \in SiteIds
    /\ \E i \in DOMAIN scans :
          /\ ScanRow(scans[i]).site_id = Unwrap(ret.siteId)
          /\ ScanRow(scans[i]).state = ScanState.FINISHED
          /\ ScanRow(scans[i]).start_time.epochMillis = now - 120 * 1000
          /\ \A j \in DOMAIN scans :
                (ScanRow(scans[j]).state = ScanState.FINISHED
                 /\ ScanRow(scans[j]).site_id = Unwrap(ret.siteId)) => j = i
    /\ \E j \in DOMAIN scans : ScanRow(scans[j]).state # ScanState.FINISHED
    /\ ret.val = UNDEFINED

\* The Sites whose domain is host.
SitesOfHost(host) == {k \in DOMAIN sites : sites[k].domain = host}

ReturnsUnchanged(rows, s, e) ==
    \E i \in DOMAIN rows :
        /\ rows[i].scan_id = s
        /\ rows[i].name = e.name
        /\ rows[i].pass = e.pass
        /\ rows[i].result = e.result
        /\ rows[i].expectation = e.expectation
        /\ rows[i].score_modifier = e.scoreModifier

Ranked(grade) == \E i \in 1..13 : grade = Val(GradeRanking[i])
RankingIndex(grade) == CHOOSE i \in 1..13 : grade = Val(GradeRanking[i])

\* C25: the entries returned by selectGradeDistribution are ordered by the
\* fixed ranking A+, A, A-, B+, B, B-, C+, C, C-, D+, D, D-, F, whatever the
\* order in which the scans were inserted or finished.
C25_GradeDistributionOrderedByRanking ==
    ret.op = "selectGradeDistribution"
    => LET distribution == Unwrap(ret.val)
       IN  /\ GradeRanking[1] = "A+" /\ GradeRanking[2] = "A" /\ GradeRanking[13] = "F"
           /\ \A k, l \in DOMAIN distribution :
                 (k < l /\ Ranked(distribution[k].grade) /\ Ranked(distribution[l].grade))
                 => RankingIndex(distribution[k].grade) < RankingIndex(distribution[l].grade)

\* The distribution came back as (A+, A) from a store in which the scan graded
\* A was inserted before the scan graded A+.
C25_Witness ==
    /\ ret.op = "selectGradeDistribution"
    /\ Len(Unwrap(ret.val)) = 2
    /\ Unwrap(ret.val)[1].grade = Val("A+")
    /\ Unwrap(ret.val)[2].grade = Val("A")
    /\ Len(scans) = 2
    /\ scans[1].grade = Val("A") /\ scans[2].grade = Val("A+")

\* The number an entry of the distribution reports.
ReportedCount(entry) == IF IsPg THEN entry.count ELSE entry.count.low

\* The number of scans the distribution reports for a grade.
Reported(distribution, grade) ==
    IF \E k \in DOMAIN distribution : distribution[k].grade = grade
    THEN ReportedCount(distribution[CHOOSE k \in DOMAIN distribution :
                                        distribution[k].grade = grade])
    ELSE 0

\* The distribution reports for every grade the number of stored scans that
\* are FINISHED with that grade.
CountsFinished(distribution) ==
    \A r \in DOMAIN GradeRanking :
        Reported(distribution, Val(GradeRanking[r]))
            = Cardinality({i \in DOMAIN scans :
                              /\ ScanRow(scans[i]).state = ScanState.FINISHED
                              /\ ScanRow(scans[i]).grade = Val(GradeRanking[r])})

\* C26: selectGradeDistribution reports, for each grade, the number of scans
\* that are currently FINISHED with that grade and counts no RUNNING, FAILED
\* or ABORTED scan: on the graph backend at every call, on the relational
\* backend at any call made right after refreshMaterializedViews.
C26_GradeDistributionCountsFinished ==
    [][(ret'.op = "selectGradeDistribution"
        /\ (IsNeo \/ ret.op = "refreshMaterializedViews"))
       => CountsFinished(Unwrap(ret.val))']_vars

\* A distribution was returned that reports a FINISHED scan, from a store
\* that also holds a graded scan which is not FINISHED.
C26_Witness ==
    /\ ret.op = "selectGradeDistribution"
    /\ IsPg => views = GradeDistributionView
    /\ \E k \in DOMAIN Unwrap(ret.val) : ReportedCount(Unwrap(ret.val)[k]) = 1
    /\ \E i \in DOMAIN scans :
          /\ scans[i].state = ScanState.ABORTED
          /\ ~IsNull(scans[i].grade)

\* The step is the return of an insertTestResults or updateScanState call
\* invoked with the id of the scan at position i.
WritesScan(i) ==
    /\ ret' # ret
    /\ ret'.op \in {"insertTestResults", "updateScanState"}
    /\ ret'.scanId = i

\* C27: a RUNNING scan is never transitioned automatically: it stays RUNNING
\* with all fields unchanged across any operation other than insertTestResults
\* or updateScanState invoked with its own id (operations on other scans or
\* sites, selectors, migrate and refreshMaterializedViews do not touch it).
C27_RunningScanUntouchedByOthers ==
    [][\A i \in DOMAIN scans :
          (scans[i].state = ScanState.RUNNING /\ ~WritesScan(i))
          => /\ i \in DOMAIN scans'
             /\ scans'[i] = scans[i]]_vars

\* A scan is still RUNNING after another scan of the site was moved to a
\* terminal state and the materialized view was refreshed.
C27_Witness ==
    /\ ret.op = "refreshMaterializedViews"
    /\ \E i, j \in DOMAIN scans :
          /\ scans[i].state = ScanState.RUNNING
          /\ scans[j].state \in Terminal

\* C28: on the graph backend each logical operation uses its own session: no
\* two operations in flight on one adapter instance run their statements on
\* the same session object.
C28_OperationsUseOwnSessions ==
    IsNeo => \A p, q \in InFlightCalls : p # q => SessionOf(p) # SessionOf(q)

\* The step is the return of a migrate() call without error.
MigrateReturns(p) ==
    /\ pc[p] = "migrate"
    /\ pc'[p] = "idle"
    /\ ret'.val = UNDEFINED

\* The call that returned last was a migrate() that completed without error.
MigrateSucceeded == ret.op = "migrate" /\ ret.val = UNDEFINED

\* C30: migrate() is idempotent: invoked on a store where it already
\* succeeded, it completes without error and leaves the set of constraints
\* and indexes and all Sites, Scans and TestResults unchanged.
C30_MigrateIdempotent ==
    [][\A p \in Procs : (MigrateSucceeded /\ MigrateReturns(p)) => store' = store]_vars

\* What the factory is required to fail with on a name it does not know.
ConfigurationError == "ConfigurationError"

\* C29: the adapter factory fails with ConfigurationError when the configured
\* backend name is neither the relational nor the graph one, and returns no
\* adapter.
C29_UnknownBackendIsConfigurationError ==
    dbType \notin DbTypes => createDatabaseAdapter(dbType) = ConfigurationError

\* C31: during migrate() only "already exists" errors are ignored; any other
\* error of a schema statement propagates to the caller, so a migrate() that
\* returns without error has applied every constraint.
C31_MigrateSuccessMeansConstraintsApplied ==
    [][\A p \in Procs :
          (IsNeo /\ MigrateReturns(p)) => NeoConstraints \subseteq schema']_vars

\* The step is a close() call that returns without error.
CloseReturns ==
    /\ Len(calls') = Len(calls) + 1
    /\ calls'[Len(calls')] = [op |-> "close", error |-> FALSE]

\* C32: close() releases every connection resource the adapter holds: after
\* one createPool followed by close, the pool, or the session and then the
\* driver, are ended and none remains open; close on an adapter for which
\* createPool was never called does nothing and does not fail.
C32_CloseReleasesWhatCreatePoolMade ==
    [][/\ (CloseReturns /\ PoolCalls = 1 /\ CloseCalls = 0 /\ ~calls[1].error)
          => /\ Open' = {}
             /\ connections'.ended =
                   IF IsPg THEN <<<<"pool", 1>>>>
                   ELSE <<<<"session", 1>>, <<"driver", 1>>>>
       /\ (PoolCalls = 0 /\ Len(calls') = Len(calls) + 1 /\ calls'[Len(calls')].op = "close")
          => /\ ~calls'[Len(calls')].error
             /\ connections' = connections
             /\ adapter' = adapter]_vars

\* close() returned on an adapter whose only createPool call had succeeded.
C32_Witness ==
    /\ calls = <<[op |-> "createPool", error |-> FALSE], [op |-> "close", error |-> FALSE]>>
    /\ Open = {}

\* The step is a createPool call that returns its pool or driver.
CreatePoolReturns ==
    /\ Len(calls') = Len(calls) + 1
    /\ calls'[Len(calls')] = [op |-> "createPool", error |-> FALSE]

\* The createPool calls that returned their pool or driver, by call number.
PoolsCreated == {i \in DOMAIN calls : calls[i] = [op |-> "createPool", error |-> FALSE]}

\* C37: createPool is not guarded: every call creates a new independent pool
\* (or driver and session) without closing the previous one, so after two
\* createPool calls and one close the resources created by the first call
\* are still open.
C37_CreatePoolNotGuarded ==
    [][/\ CreatePoolReturns
          => /\ connections'.opened \ connections.opened = Created(PoolCalls + 1)
             /\ connections'.ended = connections.ended
             /\ Open \subseteq Open'
       /\ (CloseReturns /\ PoolsCreated = {1, 2} /\ CloseCalls = 0)
          => /\ Created(1) \subseteq Open'
             /\ Created(2) \cap Open' = {}]_vars

\* Two createPool calls, then one close: what the first call created is open.
C37_Witness ==
    /\ Len(calls) = 3
    /\ PoolsCreated = {1, 2}
    /\ calls[3] = [op |-> "close", error |-> FALSE]
    /\ Created(1) \subseteq Open

\* The last line the plugin logged is an error with this message.
LoggedError(message) ==
    /\ fastify.log # <<>>
    /\ fastify.log[Len(fastify.log)] = Log("error", message)

\* C39: the database plugin follows a fixed lifecycle: it calls createPool
\* exactly once and only after the adapter was created, exposes the adapter
\* as fastify.db only after createPool succeeded, and calls db.close() when
\* the server closes; an error thrown by close is logged and not propagated,
\* while an error from adapter creation or from createPool aborts the
\* registration and the adapter is never exposed.
C39_PluginLifecycle ==
    /\ PoolCalls <= 1
    /\ fastify.stage \in {"registering", "created"} => calls = <<>>
    /\ ~IsNull(fastify.db)
          => PoolsCreated = {1} /\ fastify.stage \in {"registered", "closed"}
    /\ fastify.stage = "registered"
          => fastify.db = Val(backend) /\ fastify.onClose /\ CloseCalls = 0
    /\ fastify.stage = "closed"
          => /\ CloseCalls = 1
             /\ fastify.db = Val(backend)
             /\ calls[Len(calls)].error => LoggedError("Error closing database connection")
    /\ fastify.stage = "failed"
          => /\ IsNull(fastify.db)
             /\ ~fastify.onClose
             /\ CloseCalls = 0
             /\ \/ calls = <<>> /\ LoggedError("Failed to create database adapter")
                \/ /\ calls = <<[op |-> "createPool", error |-> TRUE]>>
                   /\ LoggedError("Failed to initialize database pool")

\* The server closed and db.close() threw: the error was logged, and the
\* plugin ended as closed.
C39_Witness ==
    /\ fastify.stage = "closed"
    /\ calls[Len(calls)] = [op |-> "close", error |-> TRUE]
    /\ LoggedError("Error closing database connection")

\* The start times of the stored scans, as callers see them.
StartTimes == [i \in DOMAIN scans |-> ScanRow(scans[i]).start_time.epochMillis]

\* Change-point compression of the scans listed in q: the first, and every
\* one whose score differs from the score of the one just before it.
ChangePoints(q) ==
    {q[k] : k \in {k \in DOMAIN q :
                     \/ k = 1
                     \/ IsDistinctFrom(ScanRow(scans[q[k]]).score,
                                       ScanRow(scans[q[k - 1]]).score)}}

\* C33: selectScanHostHistory is change-point compression against the
\* immediate predecessor only: its output is exactly the first FINISHED scan
\* plus every FINISHED scan whose score differs from the FINISHED scan just
\* before it (scores 100, 90, 100 yield three entries).
C33_HistoryIsChangePointCompression ==
    (ret.op = "selectScanHostHistory" /\ Unwrap(ret.siteId) \in SiteIds)
    => LET history == Unwrap(ret.val)
       IN  \E q \in SortedOrders(FinishedScans(Unwrap(ret.siteId)), StartTimes) :
              \E o \in SortedOrders(ChangePoints(q), StartTimes) :
                 [k \in DOMAIN history |-> history[k].id]
                    = [k \in DOMAIN o |-> scans[o[k]].id]

\* The FINISHED scans of the site siteId, as a scans table of their own.
OwnFinished(siteId) ==
    SelectSeq(scans, LAMBDA r : ScanRow(r).site_id = siteId
                                /\ r.state = ScanState.FINISHED)

\* C34: selectScanHostHistory(siteId) returns its entries in ascending order
\* of scan start time and contains only scans that are FINISHED and belong to
\* that site; RUNNING, FAILED and ABORTED scans and scans of other sites never
\* appear and never act as the predecessor in the comparison: the history is
\* the one of the site's FINISHED scans alone.
C34_HistoryOfOwnFinishedScansInStartOrder ==
    (ret.op = "selectScanHostHistory" /\ Unwrap(ret.siteId) \in SiteIds)
    => LET history == Unwrap(ret.val)
           siteId == Unwrap(ret.siteId)
       IN  /\ \A k, l \in DOMAIN history :
                 k < l => history[k].end_time.epochMillis
                             <= history[l].end_time.epochMillis
           /\ \A k \in DOMAIN history :
                 \E i \in FinishedScans(siteId) :
                    /\ scans[i].id = history[k].id
                    /\ history[k].end_time = ScanRow(scans[i]).start_time
           /\ history \in (IF IsPg THEN PgHistory(OwnFinished(siteId), siteId)
                           ELSE NeoHistory(OwnFinished(siteId), siteId))

\* A history of two entries was read off a site, while the store also holds
\* a scan that is not FINISHED or is of another site.
C34_Witness ==
    /\ ret.op = "selectScanHostHistory"
    /\ Unwrap(ret.siteId) \in SiteIds
    /\ Len(Unwrap(ret.val)) >= 2
    /\ Len(OwnFinished(Unwrap(ret.siteId))) < Len(scans)

\* The fields of a scan that updateScanState never names.
SameResult(old, new) ==
    /\ new.id = old.id
    /\ new.site_id = old.site_id
    /\ new.start_time = old.start_time
    /\ new.grade = old.grade
    /\ new.score = old.score
    /\ new.tests_failed = old.tests_failed
    /\ new.tests_passed = old.tests_passed
    /\ new.tests_quantity = old.tests_quantity
    /\ new.algorithm_version = old.algorithm_version

\* C35: updateScanState called without an error message changes only the
\* scan's state and leaves end_time, error, grade, score and the test counts
\* at their previous values; called with an error message it additionally
\* sets error to that message and end_time to the current time, and nothing
\* else, on both backends.
C35_UpdateScanStateFrame ==
    [][\A i \in DOMAIN scans :
          (ret' # ret /\ ret'.op = "updateScanState" /\ ret'.scanId = i)
          => LET old == ScanRow(scans[i])
                 new == ScanRow(scans'[i])
             IN  /\ SameResult(old, new)
                 /\ \/ new.end_time = old.end_time /\ NullEq(new.error, old.error)
                    \/ new.end_time = Val(Date(now)) /\ new.error \in ErrorArgs \ {NULL}]_vars

\* C36: Site identifiers are unique: two distinct domains never receive the
\* same Site id (also when both Sites are created at the same clock value),
\* so insertScan(siteId) attaches exactly one new Scan to exactly one Site.
C36_SiteIdsUniqueAcrossDomains ==
    [][/\ \A i, j \in DOMAIN sites' :
             sites'[i].domain # sites'[j].domain => sites'[i].id # sites'[j].id
       /\ (ret' # ret /\ ret'.op = "insertScan" /\ ~IsErr(ret'.val))
          => Len(scans') = Len(scans) + 1]_vars

\* The step is the return of caller p's insertTestResults call, which was
\* invoked with an empty outcome map.
EmptyResultReturns(p) ==
    /\ pc[p] = "insertTestResults"
    /\ pc'[p] = "idle"
    /\ args[p].result.tests = <<>>

\* C38: insertTestResults with an empty outcome map still performs the
\* terminal transition: it creates zero TestResults and moves the scan to
\* FINISHED or FAILED according to the score, on both backends.
C38_EmptyOutcomeMapStillTerminal ==
    [][\A p \in Procs :
          EmptyResultReturns(p)
          => LET id == args[p].scanId
                 scan == args[p].result.scan
             IN  /\ tests' = tests
                 /\ selectTestResults(id)' = <<>>
                 /\ scans'[id].state = IF IsNull(scan.score) THEN ScanState.FAILED
                                       ELSE ScanState.FINISHED
                 /\ NullEq(ScanRow(scans'[id]).score, scan.score)
                 /\ ret'.val = Val(ScanRow(scans'[id]))]_vars

\* A scan was finished with a score and an empty outcome map: it is FINISHED
\* and has no TestResult.
C38_Witness ==
    /\ ret.op = "insertTestResults"
    /\ ret.scanId \in ScanIds
    /\ scans[ret.scanId].state = ScanState.FINISHED
    /\ ScanRow(scans[ret.scanId]).score = ResultFinishedEmpty.scan.score
    /\ selectTestResults(ret.scanId) = <<>>

====
